---- MODULE Spec2Model ----
(***************************************************************************)
(* SpoolUp (src/spoolup/main.py): the device-state watcher and reconnect   *)
(* supervisor (MoonrakerClient), the broadcast lifecycle controller,       *)
(* encoder supervisor and health loop (YouTubeStreamer) and the            *)
(* orchestrator (SpoolUp), as state machines.                              *)
(*                                                                         *)
(* Specifications:                                                         *)
(*   Spec            the orchestration once SpoolUp.run waits in its loop: *)
(*                   the WebSocket thread handling notifications, the      *)
(*                   streamer it drives, the health and encoder-monitor    *)
(*                   loops, the remote broadcast service, the encoder      *)
(*                   processes and the shutdown of the main thread         *)
(*   StartupSpec     the start-up check of SpoolUp.run racing with the     *)
(*                   WebSocket thread while the device is in an activity   *)
(*   WatcherSpec     MoonrakerClient._handle_status_update on its own      *)
(*   TransitionSpec  YouTubeStreamer._transition_broadcast against the     *)
(*                   remote broadcast's lifecycle                          *)
(*   HealthSpec      the health loop and the encoder monitor of a running  *)
(*                   session                                               *)
(*   SessionEndSpec  HealthSpec with the end of the print delivered and    *)
(*                   stop_streaming called by the WebSocket thread         *)
(*   ReconnectSpec   MoonrakerClient.start_reconnection_loop and           *)
(*                   connect_websocket                                     *)
(*   ReconnectFairSpec  ReconnectSpec with the reconnect loop, a thread of *)
(*                   its own, scheduled fairly                             *)
(***************************************************************************)
EXTENDS Integers, Sequences, FiniteSets, TLC

(***************************************************************************)
(* Bounds of the model.                                                    *)
(***************************************************************************)
MaxNotifs == 5        \* notifications delivered in WatcherSpec
MaxSessionNotifs == 3 \* notifications delivered in Spec and StartupSpec
MaxAttempts == 12     \* connection attempts of the reconnect loop
MaxBroadcasts == 2    \* broadcasts the remote service lets the program create
MaxProcs == 2         \* encoder processes the system lets the program launch
MaxChecks == 7        \* checks of the health loop that HealthSpec counts

(***************************************************************************)
(* Program constants.                                                      *)
(***************************************************************************)
StarvationThreshold == 6    \* consecutive_starvation >= 6
MaxLiveAttempts == 10       \* for attempt in range(10)
MaxReconnectDelay == 60     \* _max_reconnect_delay = 60.0
BackoffNum == 3             \* _reconnect_delay * 1.5, as the fraction 3/2
BackoffDen == 2

(***************************************************************************)
(* Klipper print_stats states; "unknown" is the client's initial value.    *)
(***************************************************************************)
DeviceStates == {"standby", "printing", "paused", "complete", "cancelled", "error"}
PrintStates == DeviceStates \cup {"unknown"}

(***************************************************************************)
(* The threads that run the orchestration code: the WebSocket thread, which *)
(* runs the notification callbacks, and the main thread of SpoolUp.run.    *)
(***************************************************************************)
Threads == {"ws", "main"}
Broadcasts == 1..MaxBroadcasts
Procs == 1..MaxProcs
LifecycleStates == {"created", "ready", "testStarting", "testing", "liveStarting",
                    "live", "complete"}

(***************************************************************************)
(* One liveStreams status sample read by _check_stream_health: the ingest  *)
(* status, the health status and whether configurationIssues carries       *)
(* videoIngestionStarved.  RaisedSample is the API call failing.           *)
(***************************************************************************)
Samples == [status : {"active", "inactive", "error"},
            health : {"good", "ok", "bad", "noData"},
            starved : BOOLEAN]
RaisedSample == [status |-> "raise", health |-> "unknown", starved |-> FALSE]

VARIABLES
    print_state,            \* MoonrakerClient.print_state
    initial_state_handled,  \* MoonrakerClient._initial_state_handled (the start latch)
    nNotifs,                \* notifications delivered so far (bounded)
    started,                \* invocations of on_print_started
    completed,              \* invocations of on_print_completed
    cancelled,              \* invocations of on_print_cancelled
    instOpen,               \* history: a device activity instance is open
    instances,              \* history: activity instances opened so far
    pc,                     \* position of each thread
    tb,                     \* the _transition_broadcast invocation of each thread
    bstate,                 \* lifeCycleStatus of each broadcast at the remote service
    illegalCalls,           \* history: transition calls issued outside the table
    loc,                    \* locals of each thread's on_print_started
    live_broadcast,         \* YouTubeStreamer.live_broadcast (its id, 0 for None)
    live_stream,            \* YouTubeStreamer.live_stream / stream_url is set
    ffmpeg_process,         \* YouTubeStreamer.ffmpeg_process (a process, 0 for None)
    proc,                   \* each encoder process: unborn, running or exited
    is_streaming,           \* YouTubeStreamer.is_streaming
    health,                 \* the health-check loop started by each session start
    monitor,                \* the encoder-monitor loop started by each session start
    shutdown,               \* MoonrakerClient._shutdown
    connected,              \* MoonrakerClient.connected
    reconnect_delay,        \* MoonrakerClient._reconnect_delay, a fraction num/den
    rl,                     \* the reconnect loop: its position and attempts so far
    ws,                     \* the connection of MoonrakerClient.ws
    stale,                  \* a connection replaced while opening can still open
    keepalive,              \* the keep-alive probe of the open connection: none yet,
                            \* sent, answered (_last_ping_time set) or missed
    hist                    \* history: counters and flags the claims read

watcherVars == <<print_state, initial_state_handled, nNotifs, started, completed,
                 cancelled, instOpen, instances>>
transVars == <<pc, tb, bstate, illegalCalls>>
netVars == <<reconnect_delay, rl, ws, stale, keepalive>>
streamVars == <<loc, live_broadcast, live_stream, ffmpeg_process, proc,
                is_streaming, health, monitor, shutdown, connected, netVars, hist>>

vars == <<watcherVars, transVars, streamVars>>

(***************************************************************************)
(* MoonrakerClient._handle_status_update, lines 274-307: the edge taken    *)
(* for a notification carrying new_state, and the latch afterwards.        *)
(***************************************************************************)
\* a handler that takes complete and cancelled from any previous state
StatusEdge_EndFromAny(old, new, latch) ==
    IF new = old THEN [event |-> "none", latch |-> latch]
    ELSE IF new = "printing"
        THEN IF latch THEN [event |-> "none", latch |-> latch]
                      ELSE [event |-> "started", latch |-> TRUE]
    ELSE IF new = "complete" THEN [event |-> "completed", latch |-> FALSE]
    ELSE IF new = "cancelled" THEN [event |-> "cancelled", latch |-> FALSE]
    ELSE [event |-> "none", latch |-> latch]

StatusEdge(old, new, latch) ==
    IF new = old THEN [event |-> "none", latch |-> latch]
    ELSE IF new = "printing"
        THEN IF latch THEN [event |-> "none", latch |-> latch]
                      ELSE [event |-> "started", latch |-> TRUE]
    ELSE IF new = "complete" /\ old \in {"printing", "error", "paused"}
        THEN [event |-> "completed", latch |-> FALSE]
    ELSE IF new = "cancelled" /\ old \in {"printing", "error", "paused"}
        THEN [event |-> "cancelled", latch |-> FALSE]
    ELSE [event |-> "none", latch |-> latch]

(***************************************************************************)
(* History of the device's activity instances, from the notifications      *)
(* alone: an instance opens at a printing notification when none is open   *)
(* and closes at a complete or cancelled notification.                     *)
(***************************************************************************)
InstanceOpens(new) == new = "printing" /\ ~instOpen
InstanceCloses(new) == new \in {"complete", "cancelled"} /\ instOpen

TrackInstance(new) ==
    /\ instOpen' = IF InstanceOpens(new) THEN TRUE
                   ELSE IF InstanceCloses(new) THEN FALSE
                   ELSE instOpen
    /\ instances' = IF InstanceOpens(new) THEN instances + 1 ELSE instances

(***************************************************************************)
(* YouTubeStreamer._transition_broadcast, lines 810-861.                   *)
(***************************************************************************)
\* valid_transitions.get(current_status, []), lines 824-831 and 848
LegalTargets(cur) ==
    CASE cur = "created" -> {"ready"}
      [] cur = "ready" -> {"testing", "live"}
      [] cur = "testStarting" -> {"testing"}
      [] cur = "testing" -> {"live"}
      [] cur = "liveStarting" -> {"live"}
      [] cur = "live" -> {"complete"}
      [] OTHER -> {}

\* the pass without the table lookup of line 848
TransitionDecision_NoTableCheck(cur, target) ==
    IF cur = target THEN "noop"
    ELSE IF cur = "testStarting" /\ target = "testing" THEN "wait"
    ELSE IF cur = "liveStarting" /\ target = "live" THEN "wait"
    ELSE "call"

\* a pass that waits for the remote service wherever the target is listed
TransitionDecision_WaitsForRemote(cur, target) ==
    IF cur = target THEN "noop"
    ELSE IF target \notin LegalTargets(cur) THEN "reject"
    ELSE "wait"

\* the pass without the waits of lines 838-846
TransitionDecision_NoWait(cur, target) ==
    IF cur = target THEN "noop"
    ELSE IF target \notin LegalTargets(cur) THEN "reject"
    ELSE "call"

\* the pass without the equality test of line 833
TransitionDecision_NoShortcut(cur, target) ==
    IF cur = "testStarting" /\ target = "testing" THEN "wait"
    ELSE IF cur = "liveStarting" /\ target = "live" THEN "wait"
    ELSE IF target \notin LegalTargets(cur) THEN "reject"
    ELSE "call"

\* what one pass does with the fetched state, lines 833-856
TransitionDecision(cur, target) ==
    IF cur = target THEN "noop"
    ELSE IF cur = "testStarting" /\ target = "testing" THEN "wait"
    ELSE IF cur = "liveStarting" /\ target = "live" THEN "wait"
    ELSE IF target \notin LegalTargets(cur) THEN "reject"
    ELSE "call"

\* The remote service's answer to an accepted liveBroadcasts.transition:
\* testing and live are entered through their intermediate states.
RemoteAccept(target) ==
    CASE target = "testing" -> "testStarting"
      [] target = "live" -> "liveStarting"
      [] OTHER -> target

(***************************************************************************)
(* YouTubeStreamer._check_stream_health, lines 863-927: is_healthy and the *)
(* details the loop reads (health, and whether reasons carry               *)
(* videoIngestionStarved).  A failed call yields no details.               *)
(***************************************************************************)
\* a check that counts a degraded sample (inactive, or health bad) as unhealthy
CheckStreamHealth_DegradedUnhealthy(s) ==
    IF s = RaisedSample
        THEN [healthy |-> TRUE, health |-> "unknown", starved |-> FALSE]
    ELSE [healthy |-> s.status = "active" /\ s.health # "bad",
          health |-> s.health, starved |-> s.starved]

CheckStreamHealth(s) ==
    IF s = RaisedSample
        THEN [healthy |-> TRUE, health |-> "unknown", starved |-> FALSE]
    ELSE [healthy |-> s.status # "error", health |-> s.health, starved |-> s.starved]

(***************************************************************************)
(* _health_check_loop, lines 951-974: consecutive_starvation after one     *)
(* sample, and whether _restart_ffmpeg_stream is invoked.                  *)
(***************************************************************************)
\* a loop that keeps its count over a sample without starvation
StarvationStep_NoReset(r, c) ==
    LET c1 == IF r.healthy THEN 0 ELSE c IN
    IF r.starved /\ r.health \in {"bad", "ok"}
        THEN IF c1 + 1 >= StarvationThreshold
                THEN [count |-> 0, restart |-> TRUE]
                ELSE [count |-> c1 + 1, restart |-> FALSE]
        ELSE [count |-> c, restart |-> FALSE]

StarvationStep(r, c) ==
    LET c1 == IF r.healthy THEN 0 ELSE c IN
    IF r.starved /\ r.health \in {"bad", "ok"}
        THEN IF c1 + 1 >= StarvationThreshold
                THEN [count |-> 0, restart |-> TRUE]
                ELSE [count |-> c1 + 1, restart |-> FALSE]
        ELSE [count |-> 0, restart |-> FALSE]

\* the loop stopping the session at an unhealthy sample
ContinueAfterCheck_StopUnhealthy(healthy) == healthy

\* _health_check_loop, lines 951-955: whether the loop keeps the session going
\* after the sample ("continuing anyway")
ContinueAfterCheck(healthy) == TRUE

\* the smallest element of a nonempty set of numbers
Least(S) == CHOOSE x \in S : \A y \in S : x <= y

\* ids the remote service and the system have not handed out yet
FreeBroadcasts == {b \in Broadcasts : bstate[b] = "absent"}
FreeProcs == {p \in Procs : proc[p] = "unborn"}

(***************************************************************************)
(* Initial values: the state after the constructors, lines 116-137 and     *)
(* 479-490.                                                                *)
(***************************************************************************)
IdleTB == [id |-> 0, target |-> "none", cur |-> "none", result |-> FALSE,
           calls |-> 0, ret |-> "idle", done |-> FALSE]
IdleLoc == [own |-> 0, b |-> 0, attempt |-> 0, eff |-> "unknown",
            requested |-> FALSE, ret |-> "none"]
LoopOff == [st |-> "off", starv |-> 0, run |-> 0, runRestarts |-> 0]
\* the reconnect loop has not slept yet
NoSleep == [num |-> 0, den |-> 1]

\* checks is check_count (line 943) of the health loop, counted up to MaxChecks
\* in HealthSpec, which starts with the session; elsewhere it stands at MaxChecks
NoHist == [encStops |-> 0, restarts |-> 0, extFail |-> FALSE, refused |-> FALSE, scen |-> 0,
           mainStarts |-> 0, active |-> FALSE, monitorSawExit |-> FALSE,
           lateAttempt |-> FALSE, reset |-> FALSE, idleStop |-> FALSE,
           checks |-> MaxChecks]

WatcherInit0 ==
    /\ print_state = "unknown"
    /\ initial_state_handled = FALSE
    /\ nNotifs = 0
    /\ started = 0
    /\ completed = 0
    /\ cancelled = 0
    /\ instOpen = FALSE
    /\ instances = 0

TransInit0 ==
    /\ pc = [t \in Threads |-> "idle"]
    /\ tb = [t \in Threads |-> IdleTB]
    /\ bstate = [b \in Broadcasts |-> "absent"]
    /\ illegalCalls = 0

StreamInit0 ==
    /\ loc = [t \in Threads |-> IdleLoc]
    /\ live_broadcast = 0
    /\ live_stream = FALSE
    /\ ffmpeg_process = 0
    /\ proc = [p \in Procs |-> "unborn"]
    /\ is_streaming = FALSE
    /\ health = [k \in Broadcasts |-> LoopOff]
    /\ monitor = [k \in Broadcasts |-> "off"]
    /\ shutdown = FALSE
    /\ connected = TRUE
    /\ reconnect_delay = [num |-> 1, den |-> 1]
    /\ rl = [pc |-> "test", attempts |-> 0, slept |-> NoSleep]
    /\ ws = "open"
    /\ stale = FALSE
    /\ keepalive = "none"
    /\ hist = NoHist

(***************************************************************************)
(* WatcherSpec: notifications handled by _handle_status_update with the    *)
(* client's own callbacks (lines 312-319), which only log.                 *)
(***************************************************************************)
WatcherInit == WatcherInit0 /\ TransInit0 /\ StreamInit0

Notify(s) ==
    /\ nNotifs < MaxNotifs
    /\ LET e == StatusEdge(print_state, s, initial_state_handled) IN
        /\ print_state' = s
        /\ initial_state_handled' = e.latch
        /\ started' = started + (IF e.event = "started" THEN 1 ELSE 0)
        /\ completed' = completed + (IF e.event = "completed" THEN 1 ELSE 0)
        /\ cancelled' = cancelled + (IF e.event = "cancelled" THEN 1 ELSE 0)
    /\ TrackInstance(s)
    /\ nNotifs' = nNotifs + 1
    /\ UNCHANGED <<transVars, streamVars>>

WatcherNext == \E s \in DeviceStates : Notify(s)

WatcherSpec == WatcherInit /\ [][WatcherNext]_vars

(***************************************************************************)
(* _transition_broadcast as steps of the calling thread.                   *)
(***************************************************************************)
\* a call site enters _transition_broadcast(id, target) and continues at ret
EnterTB(t, id, target, ret) ==
    /\ pc' = [pc EXCEPT ![t] = "tb_fetch"]
    /\ tb' = [tb EXCEPT ![t] = [id |-> id, target |-> target, cur |-> "none",
                                result |-> FALSE, calls |-> 0, ret |-> ret,
                                done |-> FALSE]]

ReturnTB(t, result, calls) ==
    /\ pc' = [pc EXCEPT ![t] = tb[t].ret]
    /\ tb' = [tb EXCEPT ![t].result = result, ![t].calls = calls, ![t].done = TRUE]

\* history: an external call of the run fails or an encoder exits on its own
NoteFailure == hist' = [hist EXCEPT !.extFail = TRUE]
\* history: _transition_broadcast refuses a request without calling the service
NoteRefusal == hist' = [hist EXCEPT !.refused = TRUE]

\* liveBroadcasts().list(part="status"), lines 812-822: the call raises, or the
\* broadcast is not found, or its lifeCycleStatus is read
TBFetch(t) ==
    /\ pc[t] = "tb_fetch"
    /\ \/ /\ ReturnTB(t, FALSE, tb[t].calls)
          /\ NoteFailure
       \/ /\ bstate[tb[t].id] = "absent"
          /\ ReturnTB(t, FALSE, tb[t].calls)
          /\ NoteFailure
       \/ /\ bstate[tb[t].id] # "absent"
          /\ pc' = [pc EXCEPT ![t] = "tb_act"]
          /\ tb' = [tb EXCEPT ![t].cur = bstate[tb[t].id]]
          /\ UNCHANGED hist
    /\ UNCHANGED <<bstate, illegalCalls, watcherVars>>
    /\ UNCHANGED <<loc, live_broadcast, live_stream, ffmpeg_process, proc,
                   is_streaming, health, monitor, shutdown, connected, netVars>>

\* lines 833-858: no-op, wait 3 s and poll again, reject, or issue the transition
\* (which the service accepts or answers with an error)
TBAct(t) ==
    /\ pc[t] = "tb_act"
    /\ LET d == TransitionDecision(tb[t].cur, tb[t].target) IN
        \/ /\ d = "noop"
           /\ ReturnTB(t, TRUE, tb[t].calls)
           /\ UNCHANGED <<bstate, illegalCalls, hist>>
        \/ /\ d = "wait"
           /\ pc' = [pc EXCEPT ![t] = "tb_fetch"]
           /\ UNCHANGED <<tb, bstate, illegalCalls, hist>>
        \/ /\ d = "reject"
           /\ ReturnTB(t, FALSE, tb[t].calls)
           /\ NoteRefusal
           /\ UNCHANGED <<bstate, illegalCalls>>
        \/ /\ d = "call"
           /\ illegalCalls' = illegalCalls +
                (IF tb[t].target \in LegalTargets(tb[t].cur) THEN 0 ELSE 1)
           /\ \/ /\ bstate' = [bstate EXCEPT ![tb[t].id] = RemoteAccept(tb[t].target)]
                 /\ ReturnTB(t, TRUE, tb[t].calls + 1)
                 /\ UNCHANGED hist
              \/ /\ ReturnTB(t, FALSE, tb[t].calls + 1)
                 /\ NoteFailure
                 /\ UNCHANGED bstate
    /\ UNCHANGED watcherVars
    /\ UNCHANGED <<loc, live_broadcast, live_stream, ffmpeg_process, proc,
                   is_streaming, health, monitor, shutdown, connected, netVars>>

\* the remote service finishes an intermediate transition on its own
RemoteProgress(b) ==
    /\ bstate[b] \in {"testStarting", "liveStarting"}
    /\ bstate' = [bstate EXCEPT
            ![b] = IF bstate[b] = "testStarting" THEN "testing" ELSE "live"]
    /\ UNCHANGED <<pc, tb, illegalCalls, watcherVars, streamVars>>

(***************************************************************************)
(* TransitionSpec: broadcasts in any lifecycle state, and a caller that    *)
(* requests any target, again and again.                                   *)
(***************************************************************************)
TransitionInit ==
    /\ WatcherInit0
    /\ StreamInit0
    /\ pc = [t \in Threads |-> "idle"]
    /\ tb = [t \in Threads |-> IdleTB]
    /\ bstate \in [Broadcasts -> LifecycleStates \cup {"absent"}]
    /\ illegalCalls = 0

TBRequest(t, b, target) ==
    /\ pc[t] = "idle"
    /\ EnterTB(t, b, target, "idle")
    /\ UNCHANGED <<bstate, illegalCalls, watcherVars, streamVars>>

TransitionNext ==
    \/ \E b \in Broadcasts, target \in LifecycleStates : TBRequest("ws", b, target)
    \/ TBFetch("ws")
    \/ TBAct("ws")
    \/ \E b \in Broadcasts : RemoteProgress(b)

TransitionSpec == TransitionInit /\ [][TransitionNext]_vars

\* TransitionSpec with the calling thread running (it sleeps 3 s and polls
\* again, lines 840-846) and the remote service finishing the transitions it
\* has begun
TransitionFairSpec ==
    /\ TransitionSpec
    /\ WF_vars(TBFetch("ws"))
    /\ WF_vars(TBAct("ws"))
    /\ \A b \in Broadcasts : WF_vars(RemoteProgress(b))

(***************************************************************************)
(* SpoolUp.on_print_started, lines 1545-1576, with create_live_stream      *)
(* (520-630) and start_streaming (1138-1291), as steps of the thread t     *)
(* that runs it.  loc[t].ret records how start_streaming returned.         *)
(***************************************************************************)
\* where thread t continues after on_print_started returns
Cont(t) == IF t = "ws" THEN "idle" ELSE "m_run"
\* where thread t continues after stop_streaming returns
StopCont(t) == IF t = "ws" THEN "idle" ELSE "m_disconnect"

\* lines 1556-1560: the duplicate guard
OpsBegin(t) ==
    /\ pc[t] = "ops_begin"
    /\ pc' = [pc EXCEPT ![t] = IF is_streaming THEN Cont(t) ELSE "cls_stream"]
    /\ loc' = [loc EXCEPT ![t] = IdleLoc]
    /\ UNCHANGED <<tb, bstate, illegalCalls, watcherVars, live_broadcast, live_stream,
                   ffmpeg_process, proc, is_streaming, health, monitor, shutdown,
                   connected, netVars, hist>>

\* lines 1560-1565: on_print_started goes on to start_streaming only when
\* create_live_stream returned True
CreateOutcome_Proceed(t, ok) == "ss_pre"

CreateOutcome(t, ok) == IF ok THEN "ss_pre" ELSE Cont(t)

\* create_live_stream returns False (lines 571, 626-630)
FailCreate(t) ==
    /\ pc' = [pc EXCEPT ![t] = CreateOutcome(t, FALSE)]
    /\ loc' = [loc EXCEPT ![t].ret = "fail_create"]
    /\ NoteFailure

\* lines 553-573: liveStreams().insert and the pre-flight probe of the ingest URL
ClsStream(t) ==
    /\ pc[t] = "cls_stream"
    /\ \/ /\ FailCreate(t)
          /\ UNCHANGED live_stream
       \/ /\ live_stream' = TRUE
          /\ \/ FailCreate(t)
             \/ /\ pc' = [pc EXCEPT ![t] = "cls_broadcast"]
                /\ UNCHANGED <<loc, hist>>
    /\ UNCHANGED <<tb, bstate, illegalCalls, watcherVars, live_broadcast,
                   ffmpeg_process, proc, is_streaming, health, monitor, shutdown,
                   connected, netVars>>

\* lines 606-615: liveBroadcasts().insert
ClsBroadcast(t) ==
    /\ pc[t] = "cls_broadcast"
    /\ \/ /\ FailCreate(t)
          /\ UNCHANGED <<bstate, live_broadcast>>
       \/ /\ FreeBroadcasts # {}
          /\ LET nb == Least(FreeBroadcasts) IN
              /\ bstate' = [bstate EXCEPT ![nb] = "created"]
              /\ live_broadcast' = nb
              /\ loc' = [loc EXCEPT ![t].own = nb]
          /\ pc' = [pc EXCEPT ![t] = "cls_bind"]
          /\ UNCHANGED hist
    /\ UNCHANGED <<tb, illegalCalls, watcherVars, live_stream, ffmpeg_process, proc,
                   is_streaming, health, monitor, shutdown, connected, netVars>>

\* lines 619-624: liveBroadcasts().bind; a bound broadcast is ready
ClsBind(t) ==
    /\ pc[t] = "cls_bind"
    /\ \/ /\ FailCreate(t)
          /\ UNCHANGED bstate
       \/ /\ bstate' = [bstate EXCEPT ![loc[t].own] = "ready"]
          /\ pc' = [pc EXCEPT ![t] = CreateOutcome(t, TRUE)]
          /\ UNCHANGED <<loc, hist>>
    /\ UNCHANGED <<tb, illegalCalls, watcherVars, live_broadcast, live_stream,
                   ffmpeg_process, proc, is_streaming, health, monitor, shutdown,
                   connected, netVars>>

\* start_streaming returns False to on_print_started, which then returns
FailStart(t, why) ==
    /\ pc' = [pc EXCEPT ![t] = Cont(t)]
    /\ loc' = [loc EXCEPT ![t].ret = why, ![t].b = 0, ![t].attempt = 0]

\* start_streaming returns True
SucceedStart(t) ==
    /\ pc' = [pc EXCEPT ![t] = Cont(t)]
    /\ loc' = [loc EXCEPT ![t].ret = "ok", ![t].b = 0, ![t].attempt = 0]

\* lines 1139-1170: stream_url, FFmpeg availability and the webcam probe
SsPre(t) ==
    /\ pc[t] = "ss_pre"
    /\ \/ /\ FailStart(t, "fail_pre")
          /\ NoteFailure
       \/ /\ pc' = [pc EXCEPT ![t] = "ss_popen"]
          /\ UNCHANGED <<loc, hist>>
    /\ UNCHANGED <<tb, bstate, illegalCalls, watcherVars, live_broadcast, live_stream,
                   ffmpeg_process, proc, is_streaming, health, monitor, shutdown,
                   connected, netVars>>

\* lines 1213-1221: subprocess.Popen launches the encoder
SsPopen(t) ==
    /\ pc[t] = "ss_popen"
    /\ \/ /\ FailStart(t, "exception")
          /\ NoteFailure
          /\ UNCHANGED <<ffmpeg_process, proc>>
       \/ /\ FreeProcs # {}
          /\ LET np == Least(FreeProcs) IN
              /\ proc' = [proc EXCEPT ![np] = "running"]
              /\ ffmpeg_process' = np
          /\ pc' = [pc EXCEPT ![t] = "ss_grace"]
          /\ UNCHANGED <<loc, hist>>
    /\ UNCHANGED <<tb, bstate, illegalCalls, watcherVars, live_broadcast, live_stream,
                   is_streaming, health, monitor, shutdown, connected, netVars>>

\* self.ffmpeg_process.poll() is not None; polling None raises, which the
\* handler of lines 1289-1291 turns into a failure
EncoderGone == ffmpeg_process = 0 \/ proc[ffmpeg_process] = "exited"

\* lines 1224-1238: what the liveness check decides
GraceCheck_Ignored(gone) == "go"

GraceCheck(gone) == IF gone THEN "fail_grace" ELSE "go"

\* lines 1223-1238: after the 5 s grace interval, the liveness check
SsGrace(t) ==
    /\ pc[t] = "ss_grace"
    /\ IF GraceCheck(EncoderGone) = "fail_grace"
          THEN FailStart(t, "fail_grace")
          ELSE /\ pc' = [pc EXCEPT ![t] = "ss_wait"]
               /\ UNCHANGED loc
    /\ UNCHANGED <<tb, bstate, illegalCalls, watcherVars, live_broadcast, live_stream,
                   ffmpeg_process, proc, is_streaming, health, monitor, shutdown,
                   connected, netVars, hist>>

\* the last step of start_streaming, lines 1283-1287: the flag, the health
\* monitor and the encoder monitor
StartMonitors(t) ==
    /\ is_streaming' = TRUE
    /\ health' = [health EXCEPT ![loc[t].own] = [LoopOff EXCEPT !.st = "sleep"]]
    /\ monitor' = [monitor EXCEPT ![loc[t].own] = "run"]

\* lines 1240-1261: the ids are read, the ingest is awaited (up to 60 s), the
\* encoder is polled and the transition to testing is requested
SsWait(t) ==
    /\ pc[t] = "ss_wait"
    /\ IF live_stream /\ live_broadcast # 0
          THEN /\ IF EncoderGone
                     THEN /\ FailStart(t, "fail_wait")
                          /\ UNCHANGED <<tb, hist>>
                     ELSE /\ loc' = [loc EXCEPT ![t].b = live_broadcast,
                                                ![t].requested = TRUE]
                          /\ EnterTB(t, live_broadcast, "testing", "ss_testing_ret")
                          /\ \/ UNCHANGED hist
                             \/ NoteFailure
               /\ UNCHANGED <<is_streaming, health, monitor>>
          ELSE /\ StartMonitors(t)
               /\ SucceedStart(t)
               /\ UNCHANGED <<tb, hist>>
    /\ UNCHANGED <<bstate, illegalCalls, watcherVars, live_broadcast, live_stream,
                   ffmpeg_process, proc, shutdown, connected, netVars>>

\* lines 1261-1269: a failed transition to testing fails the start; otherwise,
\* 10 s later, the first transition to live is requested
SsTestingRet(t) ==
    /\ pc[t] = "ss_testing_ret"
    /\ IF tb[t].result
          THEN /\ loc' = [loc EXCEPT ![t].attempt = 0]
               /\ EnterTB(t, loc[t].b, "live", "ss_live_ret")
          ELSE /\ FailStart(t, "fail_testing")
               /\ tb' = [tb EXCEPT ![t] = IdleTB]
    /\ UNCHANGED <<bstate, illegalCalls, watcherVars, live_broadcast, live_stream,
                   ffmpeg_process, proc, is_streaming, health, monitor, shutdown,
                   connected, netVars, hist>>

\* lines 1268-1274: the retry loop ends at the first success or with the
\* tenth attempt (attempt counts from 0)
LiveLoopDone_Unbounded(result, attempt) == result

LiveLoopDone(result, attempt) == result \/ attempt + 1 >= MaxLiveAttempts

\* lines 1276-1287: every attempt failed, which is logged; start_streaming
\* returns True all the same
SucceedStartNotLive(t) ==
    /\ pc' = [pc EXCEPT ![t] = Cont(t)]
    /\ loc' = [loc EXCEPT ![t].ret = "ok_not_live", ![t].b = 0, ![t].attempt = 0]

\* lines 1268-1287: the retry loop of the transition to live, then the flag and
\* the monitors whether or not it succeeded
SsLiveRet(t) ==
    /\ pc[t] = "ss_live_ret"
    /\ IF LiveLoopDone(tb[t].result, loc[t].attempt)
          THEN /\ StartMonitors(t)
               /\ IF tb[t].result THEN SucceedStart(t) ELSE SucceedStartNotLive(t)
               /\ tb' = [tb EXCEPT ![t] = IdleTB]
          ELSE /\ loc' = [loc EXCEPT ![t].attempt = loc[t].attempt + 1]
               /\ EnterTB(t, loc[t].b, "live", "ss_live_ret")
               /\ UNCHANGED <<is_streaming, health, monitor>>
    /\ UNCHANGED <<bstate, illegalCalls, watcherVars, live_broadcast, live_stream,
                   ffmpeg_process, proc, shutdown, connected, netVars, hist>>

(***************************************************************************)
(* YouTubeStreamer.stop_streaming, lines 1359-1381, as steps of thread t.  *)
(***************************************************************************)
\* lines 1364-1365: the transition to complete is requested first
StBegin(t) ==
    /\ pc[t] = "st_begin"
    /\ IF live_broadcast # 0
          THEN EnterTB(t, live_broadcast, "complete", "st_ffmpeg")
          ELSE /\ pc' = [pc EXCEPT ![t] = "st_ffmpeg"]
               /\ UNCHANGED tb
    /\ UNCHANGED <<bstate, illegalCalls, watcherVars, streamVars>>

\* a stop that does not test the encoder reference
StopBranch_NoTest(ref) == "terminate"

\* line 1367: the encoder is terminated only when the reference holds a process
StopBranch(ref) == IF ref # 0 THEN "terminate" ELSE "clear"

\* lines 1367-1374: terminate, wait up to 5 s, kill; with no process, line 1377
\* (history: a stop that found no process has run)
StFfmpeg(t) ==
    /\ pc[t] = "st_ffmpeg"
    /\ IF StopBranch(ffmpeg_process) = "terminate"
          THEN /\ proc' = [p \in Procs |-> IF p = ffmpeg_process THEN "exited" ELSE proc[p]]
               /\ hist' = [hist EXCEPT !.encStops = hist.encStops + 1]
               /\ pc' = [pc EXCEPT ![t] = "st_clear"]
               /\ UNCHANGED is_streaming
          ELSE /\ is_streaming' = FALSE
               /\ hist' = [hist EXCEPT !.idleStop = TRUE]
               /\ pc' = [pc EXCEPT ![t] = StopCont(t)]
               /\ UNCHANGED proc
    /\ tb' = [tb EXCEPT ![t] = IdleTB]
    /\ UNCHANGED <<bstate, illegalCalls, watcherVars, loc, live_broadcast,
                   live_stream, ffmpeg_process, health, monitor, shutdown, connected, netVars>>

\* lines 1375-1377: the reference and the flag are cleared
StClear(t) ==
    /\ pc[t] = "st_clear"
    /\ ffmpeg_process' = 0
    /\ is_streaming' = FALSE
    /\ pc' = [pc EXCEPT ![t] = StopCont(t)]
    /\ UNCHANGED <<tb, bstate, illegalCalls, watcherVars, loc, live_broadcast,
                   live_stream, proc, health, monitor, shutdown, connected, netVars, hist>>

(***************************************************************************)
(* The loops a session start leaves running, and the encoder processes.    *)
(***************************************************************************)
\* an encoder process exits on its own
ProcExit(p) ==
    /\ proc[p] = "running"
    /\ proc' = [proc EXCEPT ![p] = "exited"]
    /\ NoteFailure
    /\ UNCHANGED <<transVars, watcherVars, loc, live_broadcast, live_stream,
                   ffmpeg_process, is_streaming, health, monitor, shutdown, connected, netVars>>

\* every sample the health loop can read
SampleInputs == Samples \cup {RaisedSample}

\* a sample that is neither degraded nor starved
GoodSample(s) ==
    /\ s.status = "active"
    /\ s.health \in {"good", "ok"}
    /\ ~s.starved

\* history of loop k: the consecutive samples carrying videoIngestionStarved
\* it has read (a run ends at the sixth) and the restarts it triggered during
\* the run
TrackRun(h, s, restart) ==
    LET fresh == h.run >= StarvationThreshold
        r0 == IF fresh THEN 0 ELSE h.run
        n0 == IF fresh THEN 0 ELSE h.runRestarts IN
    [run |-> IF s.starved THEN r0 + 1 ELSE 0,
     runRestarts |-> IF s.starved THEN n0 + (IF restart THEN 1 ELSE 0) ELSE 0]

\* _health_check_loop, lines 937-976: one wake of loop k, 30 s after the last,
\* on the sample s that _check_stream_health reads
HealthWake(k, s) ==
    /\ health[k].st = "sleep"
    /\ IF ~is_streaming
          THEN /\ health' = [health EXCEPT ![k].st = "ended"]
               /\ UNCHANGED <<is_streaming, hist>>
          ELSE LET r == CheckStreamHealth(s)
                   n == StarvationStep(r, health[k].starv)
                   g == TrackRun(health[k], s, n.restart) IN
               /\ health' = [health EXCEPT
                        ![k] = [st |-> IF n.restart THEN "r_term" ELSE "sleep",
                                starv |-> n.count,
                                run |-> g.run,
                                runRestarts |-> g.runRestarts]]
               /\ is_streaming' = ContinueAfterCheck(r.healthy)
               /\ hist' = [hist EXCEPT
                        !.restarts = IF n.restart THEN 1 ELSE hist.restarts,
                        !.extFail = hist.extFail \/ ~GoodSample(s),
                        !.reset = hist.reset \/ (~r.starved /\ health[k].starv > 0),
                        !.checks = IF hist.checks < MaxChecks THEN hist.checks + 1
                                                              ELSE MaxChecks]
    /\ UNCHANGED <<transVars, watcherVars, loc, live_broadcast, live_stream,
                   ffmpeg_process, proc, monitor, shutdown, connected, netVars>>

\* _restart_ffmpeg_stream, lines 981-988: the current process is terminated
\* and waited for
RestartTerminate(k) ==
    /\ health[k].st = "r_term"
    /\ IF ffmpeg_process # 0
          THEN /\ proc' = [proc EXCEPT ![ffmpeg_process] = "exited"]
               /\ health' = [health EXCEPT ![k].st = "r_clear"]
          ELSE /\ health' = [health EXCEPT ![k].st = "r_popen"]
               /\ UNCHANGED proc
    /\ UNCHANGED <<transVars, watcherVars, loc, live_broadcast, live_stream,
                   ffmpeg_process, is_streaming, monitor, shutdown, connected,
                   netVars, hist>>

\* _restart_ffmpeg_stream, line 989: the reference is cleared
RestartClear(k) ==
    /\ health[k].st = "r_clear"
    /\ ffmpeg_process' = 0
    /\ health' = [health EXCEPT ![k].st = "r_popen"]
    /\ UNCHANGED <<transVars, watcherVars, loc, live_broadcast, live_stream,
                   proc, is_streaming, monitor, shutdown, connected, netVars, hist>>

\* _restart_ffmpeg_stream, lines 991-1057: 3 s later a new process is launched
\* (or Popen raises); the loop then sleeps again
RestartPopen(k) ==
    /\ health[k].st = "r_popen"
    /\ \/ UNCHANGED <<proc, ffmpeg_process>>
       \/ /\ FreeProcs # {}
          /\ LET np == Least(FreeProcs) IN
              /\ proc' = [proc EXCEPT ![np] = "running"]
              /\ ffmpeg_process' = np
    /\ health' = [health EXCEPT ![k].st = "sleep"]
    /\ UNCHANGED <<transVars, watcherVars, loc, live_broadcast, live_stream,
                   is_streaming, monitor, shutdown, connected, netVars, hist>>

\* _ffmpeg_monitor_loop, lines 1296-1300: one wake of loop k, 5 s after the
\* last; the flag is tested, then the reference and the process it holds
MonitorWake(k) ==
    /\ monitor[k] = "run"
    /\ monitor' = [monitor EXCEPT ![k] =
            IF ~is_streaming THEN "ended"
            ELSE IF ffmpeg_process # 0 /\ proc[ffmpeg_process] = "exited" THEN "saw_exit"
            ELSE "run"]
    /\ UNCHANGED <<transVars, watcherVars, loc, live_broadcast, live_stream,
                   ffmpeg_process, proc, is_streaming, health, shutdown, connected,
                   netVars, hist>>

\* lines 1301-1315: the exit is reported through self.ffmpeg_process, read
\* again at lines 1301 and 1305, and the flag cleared.  The loop has no
\* handler of its own: when the reference was cleared since line 1300
\* (lines 989, 1375) the read raises AttributeError and the thread ends there
MonitorReport(k) ==
    /\ monitor[k] = "saw_exit"
    /\ IF ffmpeg_process = 0
          THEN /\ monitor' = [monitor EXCEPT ![k] = "crashed"]
               /\ UNCHANGED <<is_streaming, hist>>
          ELSE /\ monitor' = [monitor EXCEPT ![k] = "ended"]
               /\ is_streaming' = FALSE
               /\ hist' = [hist EXCEPT !.monitorSawExit = TRUE]
    /\ UNCHANGED <<transVars, watcherVars, loc, live_broadcast, live_stream,
                   ffmpeg_process, proc, health, shutdown, connected, netVars>>
(***************************************************************************)
(* The WebSocket thread: _on_message and _handle_status_update, lines      *)
(* 205-310, with the callbacks SpoolUp.run installs (1763-1777).  The      *)
(* thread handles one message at a time and runs the callbacks itself.     *)
(***************************************************************************)
\* history: how far the notifications, starting from an idle device, follow
\* printing, printing, complete (-1: they do not)
ScenarioStep(k, s) ==
    IF k = 0 /\ s = "printing" THEN 1
    ELSE IF k = 1 /\ s = "printing" THEN 2
    ELSE IF k = 2 /\ s = "complete" THEN 3
    ELSE -1

\* a handler that treats an error during a print as the end of the print
HandlerBranch_ErrorEnds(old, new) ==
    IF new = old THEN "idle"
    ELSE IF new = "printing" THEN "h_latch"
    ELSE IF new = "complete" /\ old \in {"printing", "error", "paused"} THEN "h_completed"
    ELSE IF new = "cancelled" /\ old \in {"printing", "error", "paused"} THEN "h_cancelled"
    ELSE IF new = "error" /\ old = "printing" THEN "h_completed"
    ELSE "idle"

\* lines 274-307: the branch the handler takes on a notification; the error
\* branch (lines 304-307) only logs, and every other change falls through
HandlerBranch(old, new) ==
    IF new = old THEN "idle"
    ELSE IF new = "printing" THEN "h_latch"
    ELSE IF new = "complete" /\ old \in {"printing", "error", "paused"} THEN "h_completed"
    ELSE IF new = "cancelled" /\ old \in {"printing", "error", "paused"} THEN "h_cancelled"
    ELSE "idle"


\* lines 274-304: the state is compared and recorded and the branch chosen
WsReceive(s) ==
    /\ pc["ws"] = "idle"
    /\ ~shutdown
    /\ nNotifs < MaxSessionNotifs
    /\ nNotifs' = nNotifs + 1
    /\ print_state' = s
    /\ TrackInstance(s)
    /\ hist' = [hist EXCEPT !.scen = ScenarioStep(hist.scen, s)]
    /\ pc' = [pc EXCEPT !["ws"] = HandlerBranch(print_state, s)]
    /\ UNCHANGED <<initial_state_handled, started, completed, cancelled, tb, bstate,
                   illegalCalls, loc, live_broadcast, live_stream, ffmpeg_process,
                   proc, is_streaming, health, monitor, shutdown, connected, netVars>>

\* lines 280-284: the latch is read
WsLatchCheck ==
    /\ pc["ws"] = "h_latch"
    /\ pc' = [pc EXCEPT !["ws"] = IF initial_state_handled THEN "idle" ELSE "h_latch_set"]
    /\ UNCHANGED <<watcherVars, tb, bstate, illegalCalls, streamVars>>

\* lines 288-289: the latch is set and on_print_started called
WsLatchSet ==
    /\ pc["ws"] = "h_latch_set"
    /\ initial_state_handled' = TRUE
    /\ started' = started + 1
    /\ hist' = [hist EXCEPT !.active = TRUE]
    /\ pc' = [pc EXCEPT !["ws"] = "ops_begin"]
    /\ UNCHANGED <<print_state, nNotifs, completed, cancelled, instOpen, instances,
                   tb, bstate, illegalCalls, loc, live_broadcast, live_stream,
                   ffmpeg_process, proc, is_streaming, health, monitor, shutdown,
                   connected, netVars>>

\* lines 1582-1583, 1605-1606 and 1843-1844: stop_streaming is called only
\* while the flag is set
GuardedStop_Never == FALSE

GuardedStop == is_streaming

\* lines 295-296 and 302-303, then on_print_completed / on_print_cancelled,
\* lines 1578-1606: the latch is cleared and the stream stopped if the flag is set
WsEnd ==
    /\ pc["ws"] \in {"h_completed", "h_cancelled"}
    /\ initial_state_handled' = FALSE
    /\ completed' = completed + (IF pc["ws"] = "h_completed" THEN 1 ELSE 0)
    /\ cancelled' = cancelled + (IF pc["ws"] = "h_cancelled" THEN 1 ELSE 0)
    /\ hist' = [hist EXCEPT !.active = FALSE]
    /\ pc' = [pc EXCEPT !["ws"] = IF GuardedStop THEN "st_begin" ELSE "idle"]
    /\ UNCHANGED <<print_state, nNotifs, started, instOpen, instances,
                   tb, bstate, illegalCalls, loc, live_broadcast, live_stream,
                   ffmpeg_process, proc, is_streaming, health, monitor, shutdown,
                   connected, netVars>>

(***************************************************************************)
(* The main thread: SpoolUp.run after the connection is up, lines          *)
(* 1802-1846.                                                              *)
(***************************************************************************)
\* lines 1804-1815 and 1831: the HTTP query answers h ("unknown" when it
\* fails), the WebSocket state stands in for an unknown answer
MainCheck(h) ==
    /\ pc["main"] = "m_check"
    /\ LET eff == IF h = "unknown" /\ print_state # "unknown" THEN print_state ELSE h IN
        /\ pc' = [pc EXCEPT !["main"] =
                IF eff = "printing" THEN "m_latch"
                ELSE IF eff # "unknown" THEN "m_write"
                ELSE "m_run"]
        /\ loc' = [loc EXCEPT !["main"].eff = IF eff \in {"printing", "unknown"}
                                                  THEN "unknown" ELSE eff]
    /\ UNCHANGED <<watcherVars, tb, bstate, illegalCalls, live_broadcast, live_stream,
                   ffmpeg_process, proc, is_streaming, health, monitor, shutdown,
                   connected, netVars, hist>>

\* line 1822: the latch is read
MainLatchCheck ==
    /\ pc["main"] = "m_latch"
    /\ pc' = [pc EXCEPT !["main"] = IF initial_state_handled THEN "m_run" ELSE "m_set"]
    /\ UNCHANGED <<watcherVars, tb, bstate, illegalCalls, streamVars>>

\* lines 1827-1830: the state and the latch are written, on_print_started called
MainSet ==
    /\ pc["main"] = "m_set"
    /\ print_state' = "printing"
    /\ initial_state_handled' = TRUE
    /\ hist' = [hist EXCEPT !.active = TRUE, !.mainStarts = hist.mainStarts + 1]
    /\ pc' = [pc EXCEPT !["main"] = "ops_begin"]
    /\ UNCHANGED <<nNotifs, started, completed, cancelled, instOpen, instances,
                   tb, bstate, illegalCalls, loc, live_broadcast, live_stream,
                   ffmpeg_process, proc, is_streaming, health, monitor, shutdown,
                   connected, netVars>>

\* line 1833: the state the start-up check found is written
MainWrite ==
    /\ pc["main"] = "m_write"
    /\ print_state' = loc["main"].eff
    /\ loc' = [loc EXCEPT !["main"].eff = "unknown"]
    /\ pc' = [pc EXCEPT !["main"] = "m_run"]
    /\ UNCHANGED <<initial_state_handled, nNotifs, started, completed, cancelled,
                   instOpen, instances, tb, bstate, illegalCalls, live_broadcast,
                   live_stream, ffmpeg_process, proc, is_streaming, health, monitor,
                   shutdown, connected, netVars, hist>>

\* lines 1840-1844: KeyboardInterrupt ends the wait
MainShutdown ==
    /\ pc["main"] = "m_run"
    /\ pc' = [pc EXCEPT !["main"] = IF GuardedStop THEN "st_begin" ELSE "m_disconnect"]
    /\ UNCHANGED <<watcherVars, tb, bstate, illegalCalls, streamVars>>

\* lines 1845-1846 and MoonrakerClient.disconnect, line 378: the flag is set
MainDisconnect ==
    /\ pc["main"] = "m_disconnect"
    /\ shutdown' = TRUE
    /\ pc' = [pc EXCEPT !["main"] = "m_close"]
    /\ UNCHANGED <<watcherVars, tb, bstate, illegalCalls, loc, live_broadcast,
                   live_stream, ffmpeg_process, proc, is_streaming, health, monitor,
                   connected, netVars, hist>>

\* MoonrakerClient.disconnect, lines 379-384: the connection self.ws refers
\* to is closed and connected is cleared
MainClose ==
    /\ pc["main"] = "m_close"
    /\ ws' = IF ws \in {"opening", "open"} THEN "closed" ELSE ws
    /\ connected' = FALSE
    /\ keepalive' = "none"
    /\ pc' = [pc EXCEPT !["main"] = "m_exit"]
    /\ UNCHANGED <<watcherVars, tb, bstate, illegalCalls, loc, live_broadcast,
                   live_stream, ffmpeg_process, proc, is_streaming, health, monitor,
                   shutdown, reconnect_delay, rl, stale, hist>>

\* lines 1848 and 1865: run returns and the process exits; its threads are all
\* daemon threads (lines 157, 373, 1061, 1320) and end with it, the encoder
\* processes and the broadcasts do not
EndLoop(st) == IF st \in {"off", "crashed"} THEN st ELSE "ended"

MainExit ==
    /\ pc["main"] = "m_exit"
    /\ pc' = [t \in Threads |-> IF t = "main" THEN "m_done" ELSE "killed"]
    /\ health' = [k \in Broadcasts |-> [health[k] EXCEPT !.st = EndLoop(health[k].st)]]
    /\ monitor' = [k \in Broadcasts |-> EndLoop(monitor[k])]
    /\ rl' = [rl EXCEPT !.pc = "killed"]
    /\ UNCHANGED <<watcherVars, tb, bstate, illegalCalls, loc, live_broadcast,
                   live_stream, ffmpeg_process, proc, is_streaming, shutdown,
                   connected, reconnect_delay, ws, stale, keepalive, hist>>

(***************************************************************************)
(* Spec: the orchestration from the moment SpoolUp.run enters its wait     *)
(* loop, its start-up check having found and recorded an idle device       *)
(* (line 1833).                                                            *)
(***************************************************************************)
Init ==
    /\ print_state = "standby"
    /\ initial_state_handled = FALSE
    /\ nNotifs = 0
    /\ started = 0
    /\ completed = 0
    /\ cancelled = 0
    /\ instOpen = FALSE
    /\ instances = 0
    /\ StreamInit0
    /\ pc = [t \in Threads |-> IF t = "ws" THEN "idle" ELSE "m_run"]
    /\ tb = [t \in Threads |-> IdleTB]
    /\ bstate = [b \in Broadcasts |-> "absent"]
    /\ illegalCalls = 0

\* the samples the health loop reads in Spec: a good one and one of a stream
\* in error
SessionSamples ==
    {[status |-> "active", health |-> "good", starved |-> FALSE],
     [status |-> "error", health |-> "bad", starved |-> FALSE]}

Next ==
    \/ \E s \in DeviceStates : WsReceive(s)
    \/ WsLatchCheck
    \/ WsLatchSet
    \/ WsEnd
    \/ MainShutdown
    \/ MainDisconnect
    \/ MainClose
    \/ MainExit
    \/ \E t \in Threads : OpsBegin(t)
    \/ \E t \in Threads : ClsStream(t)
    \/ \E t \in Threads : ClsBroadcast(t)
    \/ \E t \in Threads : ClsBind(t)
    \/ \E t \in Threads : SsPre(t)
    \/ \E t \in Threads : SsPopen(t)
    \/ \E t \in Threads : SsGrace(t)
    \/ \E t \in Threads : SsWait(t)
    \/ \E t \in Threads : SsTestingRet(t)
    \/ \E t \in Threads : SsLiveRet(t)
    \/ \E t \in Threads : StBegin(t)
    \/ \E t \in Threads : StFfmpeg(t)
    \/ \E t \in Threads : StClear(t)
    \/ \E t \in Threads : TBFetch(t)
    \/ \E t \in Threads : TBAct(t)
    \/ \E b \in Broadcasts : RemoteProgress(b)
    \/ \E p \in Procs : ProcExit(p)
    \/ \E k \in Broadcasts, s \in SessionSamples : HealthWake(k, s)
    \/ \E k \in Broadcasts : MonitorWake(k)
    \/ \E k \in Broadcasts : MonitorReport(k)

Spec == Init /\ [][Next]_vars

(***************************************************************************)
(* StartupSpec: SpoolUp.run from its start-up check (line 1804) on, while  *)
(* the WebSocket thread delivers the notifications of a device that is in  *)
(* an activity.                                                            *)
(***************************************************************************)
StartupInit ==
    /\ WatcherInit0
    /\ StreamInit0
    /\ pc = [t \in Threads |-> IF t = "ws" THEN "idle" ELSE "m_check"]
    /\ tb = [t \in Threads |-> IdleTB]
    /\ bstate = [b \in Broadcasts |-> "absent"]
    /\ illegalCalls = 0

StartupStates == {"printing", "paused"}

StartupNext ==
    \/ \E s \in StartupStates : WsReceive(s)
    \/ WsLatchCheck
    \/ WsLatchSet
    \/ \E h \in PrintStates : MainCheck(h)
    \/ MainLatchCheck
    \/ MainSet
    \/ MainWrite
    \/ \E t \in Threads : OpsBegin(t)
    \/ \E t \in Threads : ClsStream(t)
    \/ \E t \in Threads : ClsBroadcast(t)
    \/ \E t \in Threads : ClsBind(t)
    \/ \E t \in Threads : SsPre(t)
    \/ \E t \in Threads : SsPopen(t)
    \/ \E t \in Threads : SsGrace(t)
    \/ \E t \in Threads : SsWait(t)
    \/ \E t \in Threads : SsTestingRet(t)
    \/ \E t \in Threads : SsLiveRet(t)
    \/ \E t \in Threads : TBFetch(t)
    \/ \E t \in Threads : TBAct(t)
    \/ \E b \in Broadcasts : RemoteProgress(b)
    \/ \E p \in Procs : ProcExit(p)

StartupSpec == StartupInit /\ [][StartupNext]_vars

(***************************************************************************)
(* HealthSpec: the loops of one running session.  The initial state is the *)
(* one a successful start_streaming leaves behind (lines 1283-1287): the   *)
(* broadcast live, the encoder running, the flag set, both loops started.  *)
(***************************************************************************)
HealthInit ==
    /\ print_state = "printing"
    /\ initial_state_handled = TRUE
    /\ nNotifs = 1
    /\ started = 1
    /\ completed = 0
    /\ cancelled = 0
    /\ instOpen = TRUE
    /\ instances = 1
    /\ pc = [t \in Threads |-> IF t = "ws" THEN "idle" ELSE "m_run"]
    /\ tb = [t \in Threads |-> IdleTB]
    /\ bstate = [b \in Broadcasts |-> IF b = 1 THEN "live" ELSE "absent"]
    /\ illegalCalls = 0
    /\ loc = [t \in Threads |-> IF t = "ws"
                THEN [IdleLoc EXCEPT !.own = 1, !.requested = TRUE, !.ret = "ok"]
                ELSE IdleLoc]
    /\ live_broadcast = 1
    /\ live_stream = TRUE
    /\ ffmpeg_process = 1
    /\ proc = [p \in Procs |-> IF p = 1 THEN "running" ELSE "unborn"]
    /\ is_streaming = TRUE
    /\ health = [k \in Broadcasts |-> IF k = 1 THEN [LoopOff EXCEPT !.st = "sleep"]
                                               ELSE LoopOff]
    /\ monitor = [k \in Broadcasts |-> IF k = 1 THEN "run" ELSE "off"]
    /\ shutdown = FALSE
    /\ connected = TRUE
    /\ reconnect_delay = [num |-> 1, den |-> 1]
    /\ rl = [pc |-> "test", attempts |-> 0, slept |-> NoSleep]
    /\ ws = "open"
    /\ stale = FALSE
    /\ keepalive = "none"
    /\ hist = [NoHist EXCEPT !.scen = 1, !.active = TRUE, !.checks = 0]

HealthNext ==
    \/ \E k \in Broadcasts, s \in SampleInputs : HealthWake(k, s)
    \/ \E k \in Broadcasts : RestartTerminate(k)
    \/ \E k \in Broadcasts : RestartClear(k)
    \/ \E k \in Broadcasts : RestartPopen(k)
    \/ \E p \in Procs : ProcExit(p)
    \/ \E k \in Broadcasts : MonitorWake(k)
    \/ \E k \in Broadcasts : MonitorReport(k)

HealthSpec == HealthInit /\ [][HealthNext]_vars

(***************************************************************************)
(* ReconnectSpec: the loop of MoonrakerClient.start_reconnection_loop      *)
(* (lines 351-375), connect_websocket (139-173) as its steps, the          *)
(* callbacks of the connections it creates, and the shutdown of the main   *)
(* thread.  It starts where SpoolUp.run starts the loop (line 1835).       *)
(* _reconnect_delay is kept as the exact fraction num/den.                 *)
(***************************************************************************)
OneSecond == [num |-> 1, den |-> 1]

\* lines 364-366: min(self._reconnect_delay * 1.5, self._max_reconnect_delay)
Backoff(d) ==
    LET n == d.num * BackoffNum
        m == d.den * BackoffDen IN
    IF n >= MaxReconnectDelay * m THEN [num |-> MaxReconnectDelay, den |-> 1]
                                  ELSE [num |-> n, den |-> m]

\* a loop that never tries to connect
LoopStep_GiveUp(sd, conn) == IF sd THEN "stopped" ELSE "sleep"

\* lines 354-355 and 370: the loop ends on shutdown, calls connect_websocket
\* when not connected, and sleeps otherwise
LoopStep(sd, conn) ==
    IF sd THEN "stopped"
    ELSE IF ~conn THEN "cw_begin"
    ELSE "sleep"

\* lines 354-355: the loop condition and the test of connected
RlTest ==
    /\ rl.pc = "test"
    /\ rl' = [rl EXCEPT !.pc = LoopStep(shutdown, connected)]
    /\ UNCHANGED <<watcherVars, transVars, loc, live_broadcast, live_stream,
                   ffmpeg_process, proc, is_streaming, health, monitor, shutdown,
                   connected, reconnect_delay, ws, stale, keepalive, hist>>

\* lines 140-142 and 364-366: connect_websocket tests the shutdown flag; after
\* shutdown it returns False, which the loop answers with the backoff
CwBegin ==
    /\ rl.pc = "cw_begin"
    /\ \/ /\ shutdown
          /\ reconnect_delay' = Backoff(reconnect_delay)
          /\ rl' = [rl EXCEPT !.pc = "sleep"]
       \/ /\ ~shutdown
          /\ rl.attempts < MaxAttempts
          /\ rl' = [rl EXCEPT !.pc = "cw_create"]
          /\ UNCHANGED reconnect_delay
    /\ UNCHANGED <<watcherVars, transVars, loc, live_broadcast, live_stream,
                   ffmpeg_process, proc, is_streaming, health, monitor, shutdown,
                   connected, ws, stale, keepalive, hist>>

\* lines 144-158 and 171-173: creating the connection raises and
\* connect_websocket returns False (backoff, 364-366), or a new connection
\* starts opening in its own thread, replacing the reference to the previous
\* one, which is not closed (stale: a replaced connection is still opening or
\* open); the shutdown flag is not read again
CwCreate ==
    /\ rl.pc = "cw_create"
    /\ \/ /\ reconnect_delay' = Backoff(reconnect_delay)
          /\ rl' = [rl EXCEPT !.pc = "sleep", !.attempts = rl.attempts + 1]
          /\ UNCHANGED <<ws, stale, keepalive, hist>>
       \/ /\ ws' = "opening"
          /\ stale' = (stale \/ ws \in {"opening", "open"})
          /\ keepalive' = "none"
          /\ hist' = [hist EXCEPT !.lateAttempt = hist.lateAttempt \/ shutdown]
          /\ rl' = [rl EXCEPT !.pc = "cw_wait", !.attempts = rl.attempts + 1]
          /\ UNCHANGED reconnect_delay
    /\ UNCHANGED <<watcherVars, transVars, loc, live_broadcast, live_stream,
                   ffmpeg_process, proc, is_streaming, health, monitor, shutdown,
                   connected>>

\* lines 160-163: the wait ends when connected is seen or after 10 s
CwWait ==
    /\ rl.pc = "cw_wait"
    /\ rl' = [rl EXCEPT !.pc = "cw_check"]
    /\ UNCHANGED <<watcherVars, transVars, loc, live_broadcast, live_stream,
                   ffmpeg_process, proc, is_streaming, health, monitor, shutdown,
                   connected, reconnect_delay, ws, stale, keepalive, hist>>

\* lines 165-167: connected is read and the delay reset
CwCheck ==
    /\ rl.pc = "cw_check"
    /\ reconnect_delay' = IF connected THEN OneSecond ELSE reconnect_delay
    /\ rl' = [rl EXCEPT !.pc = "cw_ret"]
    /\ UNCHANGED <<watcherVars, transVars, loc, live_broadcast, live_stream,
                   ffmpeg_process, proc, is_streaming, health, monitor, shutdown,
                   connected, ws, stale, keepalive, hist>>

\* line 169 returns connected as read then; lines 360-369 act on it
CwReturn ==
    /\ rl.pc = "cw_ret"
    /\ reconnect_delay' = IF connected THEN OneSecond ELSE Backoff(reconnect_delay)
    /\ rl' = [rl EXCEPT !.pc = "sleep"]
    /\ UNCHANGED <<watcherVars, transVars, loc, live_broadcast, live_stream,
                   ffmpeg_process, proc, is_streaming, health, monitor, shutdown,
                   connected, ws, stale, keepalive, hist>>

\* line 370: time.sleep(1), whatever the attempt's outcome and the delay;
\* slept records the length of the loop's last sleep
RlSleep ==
    /\ rl.pc = "sleep"
    /\ rl' = [rl EXCEPT !.pc = "test", !.slept = OneSecond]
    /\ UNCHANGED <<watcherVars, transVars, loc, live_broadcast, live_stream,
                   ffmpeg_process, proc, is_streaming, health, monitor, shutdown,
                   connected, reconnect_delay, ws, stale, keepalive, hist>>

\* _on_open, lines 196-198, of the connection self.ws refers to
SockOpen ==
    /\ ws = "opening"
    /\ ws' = "open"
    /\ connected' = TRUE
    /\ UNCHANGED <<watcherVars, transVars, loc, live_broadcast, live_stream,
                   ffmpeg_process, proc, is_streaming, health, monitor, shutdown,
                   reconnect_delay, rl, stale, keepalive, hist>>

\* _on_error / _on_close, lines 238-244, of the connection self.ws refers to
SockDown ==
    /\ ws \in {"opening", "open"}
    /\ ws' = "closed"
    /\ connected' = FALSE
    /\ keepalive' = "none"
    /\ UNCHANGED <<watcherVars, transVars, loc, live_broadcast, live_stream,
                   ffmpeg_process, proc, is_streaming, health, monitor, shutdown,
                   reconnect_delay, rl, stale, hist>>

\* the same callbacks of a connection that was replaced while opening or
\* open: it opens after all, or it fails or closes (and is then no longer
\* tracked)
StaleEvent ==
    /\ stale
    /\ stale' = FALSE
    /\ connected' \in BOOLEAN
    /\ UNCHANGED <<watcherVars, transVars, loc, live_broadcast, live_stream,
                   ffmpeg_process, proc, is_streaming, health, monitor, shutdown,
                   reconnect_delay, rl, ws, keepalive, hist>>

(***************************************************************************)
(* The keep-alive of the open connection: run_forever is given a           *)
(* ping_interval and a payload (lines 179-182) and no ping_timeout, and    *)
(* _on_pong (192-194) records the time of the answer, which nothing reads. *)
(***************************************************************************)
NetUnchanged ==
    UNCHANGED <<watcherVars, transVars, loc, live_broadcast, live_stream,
                ffmpeg_process, proc, is_streaming, health, monitor, shutdown,
                connected, reconnect_delay, rl, ws, stale, hist>>

\* lines 179-182: every ping_interval a probe is sent on the open connection
KaPing ==
    /\ ws = "open"
    /\ keepalive \in {"none", "answered", "missed"}
    /\ keepalive' = "sent"
    /\ NetUnchanged

\* _on_pong, lines 192-194: the answer arrives; _last_ping_time is recorded
OnPong ==
    /\ ws = "open"
    /\ keepalive \in {"sent", "missed"}
    /\ keepalive' = "answered"
    /\ NetUnchanged

\* the interval passes without an answer to the probe: no callback of the
\* client runs and no timeout was asked for (lines 179-182)
KaMiss ==
    /\ ws = "open"
    /\ keepalive = "sent"
    /\ keepalive' = "missed"
    /\ NetUnchanged

ReconnectNext ==
    \/ RlTest
    \/ CwBegin
    \/ CwCreate
    \/ CwWait
    \/ CwCheck
    \/ CwReturn
    \/ RlSleep
    \/ SockOpen
    \/ SockDown
    \/ StaleEvent
    \/ KaPing
    \/ OnPong
    \/ KaMiss
    \/ MainShutdown
    \/ MainDisconnect
    \/ MainClose
    \/ MainExit

ReconnectSpec == Init /\ [][ReconnectNext]_vars

\* the reconnect loop is a thread of its own (lines 372-374): it is scheduled
\* again and again, its sleeps and its wait of at most 10 s end
ReconnectFairSpec ==
    /\ ReconnectSpec
    /\ WF_vars(RlTest)
    /\ WF_vars(CwBegin)
    /\ WF_vars(CwCreate)
    /\ WF_vars(CwWait)
    /\ WF_vars(CwCheck)
    /\ WF_vars(CwReturn)
    /\ WF_vars(RlSleep)
(***************************************************************************)
(* SessionEndSpec: the running session of HealthSpec, with its loops, and  *)
(* the WebSocket thread delivering the end of the print, on which          *)
(* on_print_completed / on_print_cancelled call stop_streaming (lines      *)
(* 1578-1606) while the health thread may be inside                        *)
(* _restart_ffmpeg_stream.                                                 *)
(***************************************************************************)
EndStates == {"complete", "cancelled"}

SessionEndNext ==
    \/ HealthNext
    \/ \E s \in EndStates : WsReceive(s)
    \/ WsEnd
    \/ StBegin("ws")
    \/ TBFetch("ws")
    \/ TBAct("ws")
    \/ StFfmpeg("ws")
    \/ StClear("ws")

SessionEndSpec == HealthInit /\ [][SessionEndNext]_vars

(***************************************************************************)
(* C1: for every sequence of notifications, on_print_started is invoked    *)
(* exactly once per activity instance: after every notification the number *)
(* of start events equals the number of instances opened.                  *)
(***************************************************************************)
C1_ExactlyOneStartPerInstance == started = instances

\* a finished invocation of thread t that fetched a state for which its target
\* is not listed
IllegalRequestDone(t) ==
    /\ tb[t].done
    /\ tb[t].cur # "none"
    /\ tb[t].target \notin LegalTargets(tb[t].cur)

(***************************************************************************)
(* C2 as stated: no transition call is issued for a target that is not     *)
(* listed for the fetched state, and every such request returns failure.   *)
(***************************************************************************)
C2_IllegalTargetRejected ==
    /\ illegalCalls = 0
    /\ \A t \in Threads :
        IllegalRequestDone(t) => tb[t].calls = 0 /\ tb[t].result = FALSE

(***************************************************************************)
(* C2 as amended: no transition call is issued for a target that is not    *)
(* listed for the fetched state; such a request returns failure unless the *)
(* target equals the fetched state, and then it returns success.           *)
(***************************************************************************)
C2_IllegalTargetNeverCalled ==
    /\ illegalCalls = 0
    /\ \A t \in Threads :
        IllegalRequestDone(t) =>
            /\ tb[t].calls = 0
            /\ tb[t].result = (tb[t].target = tb[t].cur)

C2_Witness ==
    \E t \in Threads :
        /\ IllegalRequestDone(t)
        /\ tb[t].target # tb[t].cur
        /\ tb[t].result = FALSE
        /\ tb[t].calls = 0

(***************************************************************************)
(* C3.  Six consecutive samples carrying videoIngestionStarved, whatever   *)
(* their ingest status, make the health loop trigger exactly one encoder   *)
(* restart, on the sixth, and leave the starvation counter at 0.           *)
(***************************************************************************)
C3_SixStarvedOneRestart ==
    \A k \in Broadcasts :
        /\ health[k].run < StarvationThreshold => health[k].runRestarts = 0
        /\ health[k].run = StarvationThreshold =>
                health[k].runRestarts = 1 /\ health[k].starv = 0

(***************************************************************************)
(* C4.  As stated: a health check that reads the ingest status error       *)
(* stops the session on that check (the flag is cleared).                  *)
(***************************************************************************)
ErrorCheck(k, s) == s.status = "error" /\ is_streaming /\ HealthWake(k, s)

Created == {b \in Broadcasts : bstate[b] # "absent"}
Born == {p \in Procs : proc[p] # "unborn"}
EncoderRunning == \E p \in Procs : proc[p] = "running"
BroadcastOpen == \E b \in Broadcasts : bstate[b] \notin {"absent", "complete"}
\* no handler is in progress
AtRest == pc["ws"] = "idle" /\ pc["main"] \in {"m_run", "m_done"}
\* no external call has failed, no encoder has exited on its own
NoFault == ~hist.extFail

(***************************************************************************)
(* C5.  An encoder that exits on its own while the session is active leads *)
(* to the session being stopped and cleaned up: once the program has come  *)
(* to its end after the encoder monitor saw the exit, the broadcast is     *)
(* complete, no encoder process is referenced and the flag is cleared.     *)
(***************************************************************************)
C5_EncoderExitCleansUp ==
    (pc["main"] = "m_done" /\ hist.monitorSawExit) =>
        /\ ~is_streaming
        /\ ffmpeg_process = 0
        /\ ~BroadcastOpen

(***************************************************************************)
(* C6.  The lifetimes are nested: while an encoder process runs there is a *)
(* broadcast that is not completed, and while there is such a broadcast    *)
(* the device activity is open (started, not ended or cancelled since).    *)
(* Stated for the runs without a failed external call, and for the device  *)
(* activity while no handler is in progress.                               *)
(***************************************************************************)
C6_LifetimesNested ==
    (NoFault /\ ~hist.refused) =>
        /\ EncoderRunning => BroadcastOpen
        /\ (AtRest /\ BroadcastOpen) => hist.active

(***************************************************************************)
(* C7.  One activity instance leads to at most one create_live_stream,     *)
(* under every interleaving of the WebSocket thread and the start-up check *)
(* of run(): at most one broadcast is ever created during start-up.        *)
(***************************************************************************)
C7_OneBroadcastPerInstance == Cardinality(Created) <= 1

(***************************************************************************)
(* C8.  As stated: from an idle device the notifications printing,         *)
(* printing, complete, with every external call succeeding, give one start *)
(* event, one end event, one broadcast created and completed, one encoder  *)
(* start and one encoder stop.                                             *)
(***************************************************************************)
ScenarioDone == hist.scen = 3 /\ pc["ws"] = "idle" /\ pc["main"] = "m_run"

ScenarioOutcome ==
    /\ started = 1 /\ completed = 1 /\ cancelled = 0
    /\ Created = {1} /\ bstate[1] = "complete"
    /\ Born = {1} /\ proc[1] = "exited" /\ hist.encStops = 1
    /\ ~is_streaming /\ ffmpeg_process = 0

C8_Scenario == (ScenarioDone /\ NoFault) => ScenarioOutcome

(***************************************************************************)
(* C8, amended.  The same, provided also that no transition request was    *)
(* refused, which is so when the remote service has left testStarting and  *)
(* liveStarting before the next request.                                   *)
(***************************************************************************)
C8_ScenarioSettled == (ScenarioDone /\ NoFault /\ ~hist.refused) => ScenarioOutcome

C8_Witness == ScenarioDone /\ NoFault /\ ~hist.refused /\ ScenarioOutcome

(***************************************************************************)
(* C9.  When the encoder has exited at the liveness check that ends the    *)
(* grace interval, start_streaming fails at once: nothing is retried, no   *)
(* monitor is started, the flag stays false, no transition is requested    *)
(* and the broadcast stays ready (neither testing nor live).               *)
(***************************************************************************)
\* thread t takes the step of the liveness check while the encoder is gone
GraceExit(t) == pc[t] = "ss_grace" /\ EncoderGone /\ pc'[t] \notin {"ss_grace", "killed"}

GraceFailed(t) == loc[t].ret = "fail_grace"

C9_GraceFailureAborts ==
    /\ [][\A t \in Threads : GraceExit(t) =>
                /\ pc'[t] = Cont(t)
                /\ GraceFailed(t)'
                /\ UNCHANGED <<is_streaming, health, monitor, bstate, proc,
                               ffmpeg_process>>]_vars
    /\ [](\A t \in Threads : GraceFailed(t) =>
                /\ ~is_streaming
                /\ ~loc[t].requested
                /\ health[loc[t].own].st = "off"
                /\ monitor[loc[t].own] = "off"
                /\ bstate[loc[t].own] = "ready")

\* C9, as a state predicate: after a failed liveness check the flag is
\* false, no monitor runs and the broadcast is neither testing nor live
C9_GraceFailureLeavesNothing ==
    \A t \in Threads : GraceFailed(t) =>
        /\ ~is_streaming
        /\ health[loc[t].own].st = "off"
        /\ monitor[loc[t].own] = "off"
        /\ bstate[loc[t].own] \notin {"testing", "live"}

C9_Witness ==
    \E t \in Threads :
        /\ GraceFailed(t)
        /\ pc[t] = Cont(t)
        /\ proc[ffmpeg_process] = "exited"
        /\ bstate[loc[t].own] = "ready"
        /\ ~is_streaming

(***************************************************************************)
(* C10.  The reconnect delay starts at 1, becomes min(delay * 1.5, 60)     *)
(* after a failed attempt and is exactly 1 again after any successful      *)
(* connect, so that it always lies between 1 and 60: between attempts,     *)
(* while the channel is connected, the delay is 1.                         *)
(***************************************************************************)
DelayInRange ==
    /\ reconnect_delay.den <= reconnect_delay.num
    /\ reconnect_delay.num <= MaxReconnectDelay * reconnect_delay.den

C10_DelayOneWhileConnected ==
    /\ DelayInRange
    /\ (connected /\ rl.pc \in {"test", "sleep"}) => reconnect_delay = OneSecond

\* repeated failures have driven the delay to its cap
C10_Witness == reconnect_delay = [num |-> MaxReconnectDelay, den |-> 1]


(***************************************************************************)
(* C11.  Once disconnect() has set the shutdown flag no connection attempt *)
(* is started and no connection is opened or re-opened: when disconnect    *)
(* has returned the channel is closed and connected is false, and stays    *)
(* so, whatever the reconnect loop and connect_websocket were doing.       *)
(***************************************************************************)
DisconnectReturned == pc["main"] \in {"m_exit", "m_done"}

C11_NoConnectionAfterShutdown ==
    /\ ~hist.lateAttempt
    /\ DisconnectReturned => (~connected /\ ws \notin {"opening", "open"})

\* the interleaving the claim is about: shutdown arrives while the loop is
\* inside connect_websocket
C11_Witness == shutdown /\ rl.pc \in {"cw_create", "cw_wait", "cw_check", "cw_ret"}

(***************************************************************************)
(* C12.  Device-state notifications are processed one at a time by a       *)
(* single owner: never are _handle_status_update (with the handler it      *)
(* called) and another execution of a start or end handler in progress at  *)
(* once, and print_state and the start latch are written only from the     *)
(* notification-processing path.                                           *)
(***************************************************************************)
\* positions of the main thread in SpoolUp.run's own code
RunSteps == {"m_check", "m_latch", "m_set", "m_write", "m_run", "m_disconnect",
             "m_close", "m_exit", "m_done"}
\* the WebSocket thread is inside _handle_status_update or a handler it called
WsHandling == pc["ws"] \notin {"idle", "killed"}
\* the main thread is inside on_print_started
MainHandling == pc["main"] \notin RunSteps

C12_SingleOwner ==
    /\ ~(WsHandling /\ MainHandling)
    /\ hist.mainStarts = 0

\* the main thread is inside on_print_started, which it called itself, while
\* the WebSocket thread handles a notification
C12_Witness == WsHandling /\ MainHandling /\ hist.mainStarts = 1

(***************************************************************************)
(* C13.  Whenever a session ends -- on the complete edge, on the cancelled *)
(* edge or at shutdown -- a transition of the session's broadcast to       *)
(* complete is attempted (stop_streaming is entered), whatever the         *)
(* broadcast's lifecycle state and whatever the streaming flag.            *)
(***************************************************************************)
\* thread t takes the step that ends the session: the end handler's guard
\* (lines 1582, 1605) or the finally clause of run (line 1843)
EndStep(t) ==
    IF t = "ws" THEN /\ pc["ws"] \in {"h_completed", "h_cancelled"}
                     /\ pc'["ws"] \notin {pc["ws"], "killed"}
                ELSE /\ pc["main"] = "m_run"
                     /\ pc'["main"] # "m_run"

\* a session is active and its broadcast is live, the state from which the
\* table lets the remote call to complete be issued
SessionOpen ==
    /\ hist.active
    /\ live_broadcast # 0
    /\ bstate[live_broadcast] = "live"

C13_EndAttemptsComplete ==
    [][\A t \in Threads : (EndStep(t) /\ SessionOpen) => pc'[t] = "st_begin"]_vars

\* a session has ended through stop_streaming with its broadcast live
C13_Witness ==
    \E t \in Threads : pc[t] = "st_ffmpeg" /\ bstate[live_broadcast] = "complete"

(***************************************************************************)
(* C14.  The encoder process exists only while the session's broadcast is  *)
(* in testing or live (or on its way there): it is never running while     *)
(* the broadcast is created, ready or complete, so session start moves the *)
(* broadcast on before it launches the encoder.                            *)
(***************************************************************************)
Streamable == {"testStarting", "testing", "liveStarting", "live"}

C14_EncoderOnlyWhileStreamable ==
    EncoderRunning => (live_broadcast # 0 /\ bstate[live_broadcast] \in Streamable)

\* a session in full swing: encoder running, broadcast live
C14_Witness ==
    /\ ffmpeg_process # 0
    /\ proc[ffmpeg_process] = "running"
    /\ bstate[live_broadcast] = "live"
    /\ is_streaming

(***************************************************************************)
(* C15.  When create_live_stream fails (stream insert, pre-flight probe,   *)
(* broadcast insert or bind), the caller does not proceed: the step that   *)
(* fails returns from on_print_started, launches no encoder, requests no   *)
(* transition, starts no monitor and leaves the flag as it was; the call   *)
(* never reaches start_streaming.                                          *)
(***************************************************************************)
CreateSteps == {"cls_stream", "cls_broadcast", "cls_bind"}
\* the positions inside start_streaming
StartSteps == {"ss_pre", "ss_popen", "ss_grace", "ss_wait", "ss_testing_ret",
               "ss_live_ret"}
\* thread t takes the step in which create_live_stream returns False
CreateFails(t) == pc[t] \in CreateSteps /\ loc'[t].ret = "fail_create"
CreateFailed(t) == loc[t].ret = "fail_create"

C15_CreateFailureStops ==
    /\ [][\A t \in Threads : CreateFails(t) =>
                /\ pc'[t] = Cont(t)
                /\ UNCHANGED <<is_streaming, health, monitor, proc, ffmpeg_process,
                               tb>>]_vars
    /\ [](\A t \in Threads : CreateFailed(t) =>
                /\ pc[t] \notin StartSteps
                /\ ~loc[t].requested)

\* the bind failed: the broadcast exists, the caller has returned, nothing runs
C15_Witness ==
    \E t \in Threads :
        /\ CreateFailed(t)
        /\ pc[t] = Cont(t)
        /\ loc[t].own # 0
        /\ bstate[loc[t].own] = "created"
        /\ ~is_streaming
        /\ ~EncoderRunning

(***************************************************************************)
(* C16.  A health sample with ingest status inactive or health bad, and no *)
(* error status, never stops the session by itself: the check that reads   *)
(* it leaves the flag set, the encoder process and its reference alone,    *)
(* triggers no restart and requests no transition.                         *)
(***************************************************************************)
Degraded(s) ==
    /\ s # RaisedSample
    /\ s.status # "error"
    /\ (s.status = "inactive" \/ s.health = "bad")

DegradedCheck(k, s) == Degraded(s) /\ is_streaming /\ HealthWake(k, s)

C16_DegradedSampleTolerated ==
    [][\A k \in Broadcasts, s \in SampleInputs :
            DegradedCheck(k, s) =>
                /\ is_streaming'
                /\ health'[k].st = "sleep"
                /\ UNCHANGED <<proc, ffmpeg_process, bstate, pc, tb>>]_vars

\* three starved samples in a row were read, the last one without status
\* error (the counter was reset before it was counted), and the session goes on
C16_Witness ==
    \E k \in Broadcasts :
        /\ health[k].run >= 3
        /\ health[k].starv = 1
        /\ health[k].st = "sleep"
        /\ is_streaming
        /\ ffmpeg_process # 0 /\ proc[ffmpeg_process] = "running"
        /\ bstate[k] = "live"

(***************************************************************************)
(* C17.  During session start the transition to live is attempted at most  *)
(* 10 times; when the tenth attempt has failed too, the start still        *)
(* succeeds: the encoder is left as it is, the flag is set, both monitors  *)
(* are started and start_streaming reports success.                        *)
(***************************************************************************)
\* thread t leaves the retry loop after its last attempt failed
LiveExhausted(t) ==
    /\ pc[t] = "ss_live_ret"
    /\ ~tb[t].result
    /\ loc[t].attempt = MaxLiveAttempts - 1
    /\ pc'[t] \notin {"ss_live_ret", "killed"}

C17_LiveRetriesBounded ==
    /\ [](\A t \in Threads : loc[t].attempt < MaxLiveAttempts)
    /\ [][\A t \in Threads : LiveExhausted(t) =>
                /\ pc'[t] = Cont(t)
                /\ loc'[t].ret = "ok_not_live"
                /\ is_streaming'
                /\ health'[loc[t].own].st = "sleep"
                /\ monitor'[loc[t].own] = "run"
                /\ UNCHANGED <<proc, ffmpeg_process, bstate>>]_vars

\* ten attempts failed and the session runs: flag set, monitors started, the
\* encoder running, the broadcast still in testing
C17_Witness ==
    \E t \in Threads :
        /\ loc[t].ret = "ok_not_live"
        /\ pc[t] = Cont(t)
        /\ is_streaming
        /\ health[loc[t].own].st = "sleep"
        /\ monitor[loc[t].own] = "run"
        /\ ffmpeg_process # 0 /\ proc[ffmpeg_process] = "running"
        /\ bstate[loc[t].own] = "testing"

(***************************************************************************)
(* C18.  When a keep-alive probe sent on the control channel gets no       *)
(* answer, the client treats the channel as disconnected: connected        *)
(* becomes false (and the reconnect loop then reconnects).                 *)
(***************************************************************************)
C18_MissedPongDisconnects == (keepalive = "missed") ~> ~connected

\* a probe went unanswered on the open, connected channel
C18_Witness == keepalive = "missed" /\ ws = "open" /\ connected

(***************************************************************************)
(* C19.  Whenever the control channel is disconnected and shutdown has not *)
(* been requested, the reconnect loop, fairly scheduled, eventually makes  *)
(* a new connection attempt, unless the channel is connected or shutdown   *)
(* is requested first; it does so again after every failed attempt.        *)
(***************************************************************************)
C19_ReconnectEventually ==
    \A n \in 0..(MaxAttempts - 1) :
        (~connected /\ ~shutdown /\ rl.attempts = n)
            ~> (rl.attempts > n \/ connected \/ shutdown)

\* the loop is at its third attempt, the channel still down
C19_Witness == ~connected /\ ~shutdown /\ rl.pc = "cw_wait" /\ rl.attempts >= 3

(***************************************************************************)
(* C20.  A health sample without starvation that arrives before the        *)
(* starvation counter has reached 6 resets the counter to 0 and triggers   *)
(* no encoder restart; _restart_ffmpeg_stream is invoked only in a step in *)
(* which the counter reaches the threshold.                                *)
(***************************************************************************)
\* loop k reads the sample s, which carries no videoIngestionStarved
CalmCheck(k, s) == ~CheckStreamHealth(s).starved /\ is_streaming /\ HealthWake(k, s)
\* loop k invokes _restart_ffmpeg_stream in this step
RestartInvoked(k) == health[k].st = "sleep" /\ health'[k].st = "r_term"

C20_CalmSampleResets ==
    /\ [][\A k \in Broadcasts, s \in SampleInputs :
                CalmCheck(k, s) => health'[k].starv = 0 /\ health'[k].st = "sleep"]_vars
    /\ [][\A k \in Broadcasts :
                RestartInvoked(k) => health[k].starv + 1 = StarvationThreshold]_vars
    /\ [](\A k \in Broadcasts : health[k].starv < StarvationThreshold)

\* a sample without starvation has reset a counter that was counting, the
\* session going on without a restart
C20_Witness ==
    \E k \in Broadcasts :
        /\ hist.reset
        /\ hist.restarts = 0
        /\ health[k].starv = 0
        /\ health[k].st = "sleep"
        /\ is_streaming

(***************************************************************************)
(* C21.  When the device is already printing as the watcher starts,        *)
(* on_print_started is called exactly once at start-up, counting the       *)
(* subscription snapshot handled by the WebSocket thread and the HTTP      *)
(* state check of run() together, under every interleaving of the two      *)
(* threads: never twice.                                                   *)
(***************************************************************************)
\* calls of on_print_started from either thread
StartCalls == started + hist.mainStarts

C21_OneStartAtStartup == StartCalls <= 1

\* the start-up check has run its course and the snapshot was handled: one
\* of the two called on_print_started
C21_Witness == StartCalls = 1 /\ nNotifs > 0 /\ pc["main"] = "m_run" /\ pc["ws"] = "idle"

(***************************************************************************)
(* C22.  On an activity-ended or activity-cancelled edge the teardown runs *)
(* in this order: the health monitor is stopped first, then the encoder,   *)
(* and only then is the transition of the broadcast to complete requested. *)
(* So while the complete transition is being requested the encoder is      *)
(* stopped already, and once stop_streaming has stopped the encoder the    *)
(* health monitor is stopped already.                                      *)
(***************************************************************************)
\* thread t is inside the _transition_broadcast(..., "complete") of stop_streaming
RequestingComplete(t) == pc[t] \in {"tb_fetch", "tb_act"} /\ tb[t].target = "complete"
\* the health loops are stopped: none is running, or the flag they test is down
HealthStopped == ~is_streaming \/ \A k \in Broadcasts : health[k].st \in {"off", "ended"}

\* the edges are handled by the WebSocket thread
C22_TeardownOrder ==
    /\ RequestingComplete("ws") => (EncoderGone /\ HealthStopped)
    /\ pc["ws"] = "st_clear" => HealthStopped

\* a teardown has run to its end: broadcast complete, encoder stopped by
\* stop_streaming, flag down
C22_Witness ==
    /\ hist.encStops = 1
    /\ ~is_streaming
    /\ ffmpeg_process = 0
    /\ live_broadcast # 0 /\ bstate[live_broadcast] = "complete"
    /\ completed + cancelled = 1
    /\ pc["ws"] = "idle"

(***************************************************************************)
(* C23.  After a session has ended (the flag was set false) every loop     *)
(* started for it ends at its next wake: a wake of a health loop or of an  *)
(* encoder monitor whose session is over -- the streamer has gone on to    *)
(* another broadcast -- ends that loop, so that no loop runs into, or acts *)
(* on, a later session.                                                    *)
(***************************************************************************)
\* loop k was started for a session that is over: the streamer's broadcast
\* is another one by now
SessionOver(k) == live_broadcast # k

C23_LoopsEndWithSession ==
    [][/\ \A k \in Broadcasts, s \in SampleInputs :
            (SessionOver(k) /\ HealthWake(k, s)) => health'[k].st = "ended"
       /\ \A k \in Broadcasts :
            (SessionOver(k) /\ MonitorWake(k)) => monitor'[k] = "ended"]_vars

\* the loops of a session that ended have ended, a later session is running
C23_Witness ==
    \E k \in Broadcasts :
        /\ SessionOver(k)
        /\ health[k].st = "ended"
        /\ monitor[k] = "ended"
        /\ is_streaming

(***************************************************************************)
(* C24.  A notification that moves the device from printing, error or      *)
(* paused to complete (resp. cancelled) clears the start latch and emits   *)
(* exactly one end (resp. cancel) event and nothing else; a complete or    *)
(* cancelled notification from any other previous state emits no event     *)
(* and leaves the latch as it was.                                         *)
(***************************************************************************)
ActiveStates == {"printing", "error", "paused"}
Events == <<started, completed, cancelled>>

C24_EndEdges ==
    [][/\ Notify("complete") =>
            IF print_state \in ActiveStates
                THEN /\ ~initial_state_handled'
                     /\ Events' = <<started, completed + 1, cancelled>>
                ELSE UNCHANGED <<initial_state_handled, Events>>
       /\ Notify("cancelled") =>
            IF print_state \in ActiveStates
                THEN /\ ~initial_state_handled'
                     /\ Events' = <<started, completed, cancelled + 1>>
                ELSE UNCHANGED <<initial_state_handled, Events>>]_vars

\* both cases have happened: an end edge cleared a set latch, and a cancelled
\* from a state outside the three then emitted nothing
C24_Witness ==
    /\ started = 1 /\ completed = 1 /\ cancelled = 0
    /\ print_state = "cancelled"
    /\ ~initial_state_handled

(***************************************************************************)
(* C25.  A notification that moves the device from printing to error       *)
(* emits no start, end or cancel event and changes nothing but the         *)
(* recorded device state: the handler returns at once, and the start       *)
(* latch, the streaming flag, the encoder process, the broadcast's         *)
(* lifecycle state and the monitor loops are as they were.                 *)
(***************************************************************************)
C25_ErrorKeepsSession ==
    [][(WsReceive("error") /\ print_state = "printing") =>
            /\ pc'["ws"] = "idle"
            /\ UNCHANGED <<initial_state_handled, Events, is_streaming,
                           ffmpeg_process, proc, live_broadcast, live_stream,
                           bstate, tb, illegalCalls, health, monitor>>]_vars

\* the error arrived as the second notification, during the live session the
\* first one started, and the session is still there
C25_Witness ==
    /\ print_state = "error" /\ nNotifs = 2
    /\ started = 1 /\ completed = 0 /\ cancelled = 0
    /\ initial_state_handled
    /\ is_streaming /\ ffmpeg_process # 0
    /\ live_broadcast # 0 /\ bstate[live_broadcast] = "live"
    /\ pc["ws"] = "idle"

(***************************************************************************)
(* C26.  _transition_broadcast is idempotent at its target: when the       *)
(* lifecycle state it fetched equals the requested target, the call        *)
(* returns True, issues no transition call and leaves the remote           *)
(* lifecycle state as it was, however often it is repeated.                *)
(***************************************************************************)
C26_NoopAtTarget ==
    [][\A t \in Threads :
        (TBAct(t) /\ tb[t].cur = tb[t].target) =>
            /\ tb'[t].done /\ tb'[t].result
            /\ tb'[t].calls = tb[t].calls
            /\ pc'[t] = tb[t].ret
            /\ UNCHANGED <<bstate, illegalCalls>>]_vars

\* a call that found the broadcast at its target has returned True without a
\* transition call, and the broadcast is still there
C26_Witness ==
    /\ pc["ws"] = "idle"
    /\ tb["ws"].done /\ tb["ws"].result /\ tb["ws"].calls = 0
    /\ tb["ws"].cur = tb["ws"].target
    /\ bstate[tb["ws"].id] = tb["ws"].target

(***************************************************************************)
(* C27.  stop_streaming is idempotent: a call that finds no encoder        *)
(* process returns normally, terminates nothing, and leaves no process     *)
(* and the streaming flag false; and once the broadcast is complete its    *)
(* request for complete issues no transition call and leaves the           *)
(* broadcast as it is.                                                     *)
(***************************************************************************)
StopFindsNoEncoder(t) == StFfmpeg(t) /\ ffmpeg_process = 0
StopFindsComplete(t) == TBAct(t) /\ tb[t].ret = "st_ffmpeg" /\ tb[t].cur = "complete"

C27_StopIdempotent ==
    [][\A t \in Threads :
        /\ StopFindsNoEncoder(t) =>
                /\ pc'[t] = StopCont(t)
                /\ ~is_streaming' /\ ffmpeg_process' = 0
                /\ hist'.encStops = hist.encStops
                /\ UNCHANGED <<proc, bstate, illegalCalls>>
        /\ StopFindsComplete(t) =>
                /\ pc'[t] = "st_ffmpeg"
                /\ tb'[t].result /\ tb'[t].calls = 0
                /\ UNCHANGED <<proc, bstate, illegalCalls>>]_vars

\* the main thread's stop came after the WebSocket thread's: it found the
\* broadcast complete and no encoder, and has returned
C27_Witness ==
    /\ hist.idleStop /\ hist.encStops = 1
    /\ pc["main"] = "m_disconnect" /\ pc["ws"] = "idle"
    /\ ~is_streaming /\ ffmpeg_process = 0
    /\ live_broadcast # 0 /\ bstate[live_broadcast] = "complete"

(***************************************************************************)
(* C28.  After a failed reconnect attempt the loop waits for the current   *)
(* backoff delay before it tries again, so the waits between failed        *)
(* attempts grow with the delay.  (The delay is above one second exactly   *)
(* when the last attempt failed.)                                          *)
(***************************************************************************)
AfterFailedAttempt == rl.pc = "sleep" /\ reconnect_delay # OneSecond

C28_WaitsBackoffDelay ==
    [][(AfterFailedAttempt /\ RlSleep) => rl'.slept = reconnect_delay]_vars

\* two attempts in a row have failed, the delay stands at 2.25 s, and the
\* loop has slept one second before testing again
C28_Witness ==
    /\ reconnect_delay = [num |-> 9, den |-> 4]
    /\ rl.attempts = 2
    /\ rl.pc = "test" /\ rl.slept = OneSecond
    /\ ~connected /\ ~shutdown

(***************************************************************************)
(* C29.  A failure inside one worker ends neither that worker's loop nor   *)
(* a sibling's: a health check whose API call raises leaves the session    *)
(* running, restarts nothing, and the health loop and the encoder monitor  *)
(* go on; and no worker loop is ever ended by an exception of its own.     *)
(***************************************************************************)
RaisedCheck(k) == is_streaming /\ HealthWake(k, RaisedSample)

C29_FailuresIsolated ==
    [][/\ \A k \in Broadcasts :
            RaisedCheck(k) =>
                /\ is_streaming'
                /\ health'[k].st = "sleep"
                /\ UNCHANGED <<monitor, proc, ffmpeg_process, bstate, pc>>
       /\ \A k \in Broadcasts : monitor'[k] # "crashed"]_vars

\* the encoder monitor has died of its exception during a restart, and the
\* session goes on with the new encoder and the health loop alone
C29_Witness ==
    \E k \in Broadcasts :
        /\ monitor[k] = "crashed"
        /\ is_streaming /\ live_broadcast = k
        /\ health[k].st = "sleep"
        /\ ffmpeg_process # 0 /\ proc[ffmpeg_process] = "running"

(***************************************************************************)
(* C30.  During the start of a session the health loop tolerates strictly  *)
(* more consecutive failing samples before it acts than it does later,     *)
(* when the sixth restarts the encoder: none of the first six checks of a  *)
(* session triggers the restart.                                           *)
(***************************************************************************)
StartupCheck(k, s) ==
    /\ is_streaming
    /\ hist.checks < StarvationThreshold
    /\ HealthWake(k, s)

C30_StartupToleratesMore ==
    [][\A k \in Broadcasts, s \in SampleInputs :
            StartupCheck(k, s) => health'[k].st # "r_term"]_vars

\* the sixth check of the session, three minutes after its start, has read
\* the sixth failing sample in a row and calls for the restart
C30_Witness ==
    \E k \in Broadcasts :
        /\ hist.checks = StarvationThreshold
        /\ health[k].st = "r_term"
        /\ health[k].run = StarvationThreshold
        /\ is_streaming

(***************************************************************************)
(* C31.  When start_streaming returns False after it has launched the      *)
(* encoder (the encoder exited, it died during the wait for the ingest,    *)
(* or the transition to testing failed), the encoder it launched is not    *)
(* running at the return.                                                  *)
(***************************************************************************)
AfterLaunch == {"ss_grace", "ss_wait", "ss_testing_ret"}
LateFailures == {"fail_grace", "fail_wait", "fail_testing"}
\* thread t takes the step in which start_streaming returns False
StartFails(t) ==
    /\ pc[t] \in AfterLaunch
    /\ pc'[t] = Cont(t)
    /\ loc'[t].ret \in LateFailures

C31_FailedStartLeavesNoEncoder ==
    [][\A t \in Threads : StartFails(t) => ~(ffmpeg_process # 0 /\ proc[ffmpeg_process] = "running")']_vars

\* the transition to testing failed, start_streaming has returned False, and
\* the encoder it launched runs on with the flag unset
C31_Witness ==
    /\ loc["ws"].ret = "fail_testing"
    /\ pc["ws"] = "idle"
    /\ ffmpeg_process # 0 /\ proc[ffmpeg_process] = "running"
    /\ ~is_streaming
    /\ bstate[loc["ws"].own] = "ready"

(***************************************************************************)
(* C32.  Once stop_streaming has finished for a session, no encoder        *)
(* process runs for it and none is launched afterwards, whatever the       *)
(* health thread is doing in _restart_ffmpeg_stream at the time.           *)
(***************************************************************************)
\* the WebSocket thread has called stop_streaming and the call has returned
StopFinished == pc["ws"] = "idle" /\ (hist.encStops > 0 \/ hist.idleStop)

C32_NoEncoderAfterStop == StopFinished => ~EncoderRunning

\* stop_streaming found the reference cleared by a restart in progress and
\* returned; the restart then launched a new encoder, which runs on after the
\* session's loops have ended
C32_Witness ==
    /\ StopFinished /\ hist.idleStop
    /\ ~is_streaming
    /\ ffmpeg_process # 0 /\ proc[ffmpeg_process] = "running"
    /\ health[1].st = "ended" /\ monitor[1] \in {"ended", "crashed"}
    /\ bstate[1] = "complete"

(***************************************************************************)
(* C33.  In every reachable state the start latch is set only while the    *)
(* recorded device state is printing, paused or error; it is never set     *)
(* while the state is standby, complete or cancelled.                      *)
(***************************************************************************)
C33_LatchOnlyWhileActive == initial_state_handled => print_state \in ActiveStates

\* a print went into error and the device was reset to standby: the latch
\* set at the start is still set
C33_Witness ==
    /\ initial_state_handled
    /\ print_state = "standby"
    /\ started = 1 /\ completed = 0 /\ cancelled = 0
    /\ nNotifs = 3

(***************************************************************************)
(* C34.  Start and end emissions strictly alternate, beginning with a      *)
(* start: every completed or cancelled emission is preceded by a started   *)
(* emission with no other end emission in between.  In counts: the starts  *)
(* emitted so far are the ends emitted so far, or one more.                *)
(***************************************************************************)
Ends == completed + cancelled

C34_StartEndAlternate == Ends <= started /\ started <= Ends + 1

\* the program came up while the print was paused, and the print was then
\* cancelled: an end emission without any start
C34_Witness ==
    /\ started = 0 /\ cancelled = 1 /\ completed = 0
    /\ nNotifs = 2 /\ print_state = "cancelled"

(***************************************************************************)
(* C35.  At most one control-channel connection created by the client is   *)
(* live at any time: connect_websocket creates no connection while one it  *)
(* created before can still open, deliver notifications or set connected.  *)
(***************************************************************************)
LiveConnections == (IF ws \in {"opening", "open"} THEN 1 ELSE 0) + (IF stale THEN 1 ELSE 0)

C35_OneConnection == LiveConnections <= 1

\* the attempt before timed out while its connection was still opening; the
\* loop has created the next connection beside it
C35_Witness ==
    /\ stale /\ ws = "opening"
    /\ rl.attempts = 2 /\ rl.pc = "cw_wait"
    /\ ~shutdown

(***************************************************************************)
(* C36.  At most one encoder process launched by the streamer is alive at  *)
(* any time, and a live encoder is the one ffmpeg_process refers to:       *)
(* start_streaming, _restart_ffmpeg_stream and stop_streaming never leave  *)
(* two live processes or a live one that is not referenced.                *)
(***************************************************************************)
LiveEncoders == {p \in Procs : proc[p] = "running"}

C36_OneReferencedEncoder ==
    /\ Cardinality(LiveEncoders) <= 1
    /\ \A p \in LiveEncoders : p = ffmpeg_process

\* two encoders run side by side and the streamer refers to the second only
C36_Witness ==
    /\ LiveEncoders = {1, 2}
    /\ ffmpeg_process = 2

(***************************************************************************)
(* C37.  One invocation of _transition_broadcast, with all its re-polls,   *)
(* issues at most one transition call, and none while the broadcast is in  *)
(* testStarting on the way to testing or in liveStarting on the way to     *)
(* live: a pass that fetched such a state only waits and polls again, and  *)
(* with one caller the broadcast has left that state when a call is made.  *)
(***************************************************************************)
Intermediate(state, target) ==
    \/ state = "testStarting" /\ target = "testing"
    \/ state = "liveStarting" /\ target = "live"

C37_OneCallNoneWhileStarting ==
    /\ [](\A t \in Threads : tb[t].calls <= 1)
    /\ [][\A t \in Threads :
            /\ (TBAct(t) /\ Intermediate(tb[t].cur, tb[t].target)) =>
                    /\ pc'[t] = "tb_fetch"
                    /\ tb'[t].calls = tb[t].calls
                    /\ UNCHANGED <<bstate, illegalCalls>>
            /\ (TBAct(t) /\ tb'[t].calls > tb[t].calls) =>
                    ~Intermediate(bstate[tb[t].id], tb[t].target)]_vars

\* the invocation found the broadcast in testStarting, has waited and is
\* about to poll again; it has issued no call
C37_Witness ==
    /\ pc["ws"] = "tb_fetch"
    /\ tb["ws"].target = "testing" /\ tb["ws"].cur = "testStarting"
    /\ bstate[tb["ws"].id] = "testStarting"
    /\ tb["ws"].calls = 0

(***************************************************************************)
(* C38.  Every invocation of _transition_broadcast eventually returns a    *)
(* result, provided the remote service eventually moves the broadcast out  *)
(* of testStarting and liveStarting (the fairness of TransitionFairSpec);  *)
(* the wait-and-retry path itself has no bound.                            *)
(***************************************************************************)
Invoked(t) == pc[t] \in {"tb_fetch", "tb_act"}
Returned(t) == pc[t] = "idle" /\ tb[t].done

C38_TransitionReturns == Invoked("ws") ~> Returned("ws")

\* the invocation found the broadcast in liveStarting and waits; the remote
\* service has meanwhile made it live, which the next poll will find
C38_Witness ==
    /\ pc["ws"] = "tb_fetch"
    /\ tb["ws"].target = "live" /\ tb["ws"].cur = "liveStarting"
    /\ bstate[tb["ws"].id] = "live"
    /\ tb["ws"].calls = 0

====
